---- MODULE Spec2Model ----
(***************************************************************************)
(* A model of emu, a command-line control plane for QEMU virtual machines. *)
(*                                                                         *)
(* SpecQmp   the QMP client (src/qmp/client.rs): one session in which the  *)
(*           server emits objects and the client issues send_command<T>.   *)
(* Spec      the commands of the command handler on the VMs a and b: the   *)
(*           store, the pidfiles, the emulator processes, shutdown and     *)
(*           restart.                                                      *)
(* SpecStore the commands that change the store (create, delete, rename,   *)
(*           port map, supervise) from an empty base directory.            *)
(* SpecNames the commands that take a VM name, on every name string up to  *)
(*           MaxNameLen characters.                                        *)
(* SpecConfig the configuration commands (set, copy, show, port map and    *)
(*           unmap) on the configuration files of the VMs a and b, with    *)
(*           the write of a file in its two steps.                         *)
(* SpecVm    the VM value (src/vm.rs) and its accessors and mutators.      *)
(* SpecTree  the size of a VM over the files below its root.               *)
(* SpecUnits the unit files of the systemd supervisor: create, remove,     *)
(*           list.                                                         *)
(* SpecFrame the reader of the QMP client on the bytes of the socket.      *)
(* SpecLaunch the launcher with the cdrom and extra disk of the command    *)
(*           line and the stored configuration.                            *)
(* SpecPaired a QMP session in which the monitor answers every command and *)
(*           emits events in between.                                      *)
(* SpecJobs  the job of a snapshot command: wait_for_job, delete_job and   *)
(*           cleanup_job against the job in the monitor.                   *)
(* SpecNc, SpecNcFair  the port forwarder: the task on standard input and  *)
(*           the socket loop; SpecNcFair adds the fairness of the runtime. *)
(* SpecJobsFair  SpecJobs with the fairness of a monitor that answers.     *)
(* SpecSession  the command paths that open a QMP session: the qmp command *)
(*           and shutdown, from the connect to the command.                *)
(* SpecEof, SpecEofFair  the reader on a socket that the monitor closes or *)
(*           resets; SpecEofFair adds that a running reader goes on.       *)
(* SpecArgs  the argument vector of the emulator (Emulator::args).         *)
(* SpecRerun Spec, and the unit file of a VM can be taken away.            *)
(* SpecRace  two run commands at the same time.                            *)
(***************************************************************************)
EXTENDS Integers, Sequences, FiniteSets, TLC

(***************************************************************************)
(* Bounds of the model.                                                    *)
(***************************************************************************)
\* objects the server emits in one session
MaxMsgs == 3
\* commands the client issues in one session
MaxCmds == 2
\* characters of a VM name given on the command line
MaxNameLen == 2
\* buffers read from standard input in one nc
MaxReads == 3
\* query-jobs commands of one wait_for_job call
MaxPolls == 3
\* lines the monitor writes before it closes the socket in one run of SpecEof
MaxEofLines == 3
\* disks of the VM that Emulator::args is called for
MaxDisks == 3
\* calls of Emulator::args in one run of SpecArgs
MaxArgsCalls == 2
\* calls of Launcher::launch in one run of SpecLaunch
MaxLaunches == 2
\* lines the monitor writes to the socket in one run of SpecFrame
MaxLines == 6
\* levels of directories below a VM root
MaxDepth == 2
\* bytes of a file below a VM root
MaxFileLen == 2
\* seconds at which a create command can run (a disk is named after that second)
MaxClock == 2
\* directories of VMs that SpecNames lets exist at a time
MaxVms == 1
\* configuration commands in one run of SpecConfig
MaxOps == 3
\* process ids the kernel hands out: FirstPid .. MaxPid
FirstPid == 9
MaxPid == 10

VARIABLES
    \* ---- QMP session (src/qmp/client.rs) ----
    sock,      \* objects written by the server and not yet read by the client
    qlog,      \* objects the server has written since the current request
    qread,     \* objects the current read_input call has consumed
    qpc,       \* "idle" | "reading" | "returned": position of send_command
    qtype,     \* the response type T of the current send_command call
    qresult,   \* what the last send_command call returned
    nsent,     \* objects the server has emitted so far
    ncmds,     \* requests the client has written so far
    \* ---- the machine the command handler runs on ----
    fs,        \* the directories that exist, each with the files the model tracks
    units,     \* VM names with a unit file emu.<name>.service
    services,  \* the services that systemctl --user is-active reports active
    alive,     \* pids of the processes that exist (/proc/<pid>)
    nextpid,   \* the pid the next spawned process gets
    daemon,    \* the daemonized child of a detached launch
    sd,        \* the shutdown (wait) call in progress, of shutdown or of restart
    cmd,       \* the command that has just completed, with its outcome
    \* ---- the configuration files (src/config.rs) ----
    cfile,     \* the file config of each VM: present, and its text
    cw,        \* the to_file in progress
    cres,      \* the configuration command that has just run
    nops,      \* the configuration commands run so far
    \* ---- one QMP session with its monitor (src/qmp/client.rs) ----
    answers,   \* for each object the monitor has written: the request it answers, 0 for an event
    rd,        \* the bytes of the socket and the read_input call on them
    job,       \* the job of a snapshot command and the client that awaits it
    \* ---- objects and directories ----
    usys,      \* the directory systemd/user and the last call on it
    vmo,       \* a VM value (src/vm.rs) and what its mutators were given
    lrun,      \* the last call of Launcher::launch with its overrides
    tree,      \* a VM root with its files and the last size() of it
    ncs,       \* the two tasks of CommandHandler::nc and their channels
    \* ---- command paths ----
    ses,       \* a command path that opens a QMP session, and its monitor
    av,        \* the last call of Emulator::args and what it returned
    race       \* two run commands issued at the same time

qvars == <<sock, qlog, qread, qpc, qtype, qresult, nsent, ncmds>>
svars == <<fs, units, services, alive, nextpid, daemon, sd, cmd>>
cvars == <<cfile, cw, cres, nops>>
xvars == <<answers, rd, job, usys, vmo, lrun, tree, ncs>>
yvars == <<ses, av, race>>
vars == <<sock, qlog, qread, qpc, qtype, qresult, nsent, ncmds,
          fs, units, services, alive, nextpid, daemon, sd, cmd,
          cfile, cw, cres, nops,
          answers, rd, job, usys, vmo, lrun, tree, ncs,
          ses, av, race>>

(***************************************************************************)
(* QMP messages (src/qmp/messages/mod.rs).  A JSON object is modelled by   *)
(* the shape of the top-level members that the serde structs look at:      *)
(*   ret    the "return" member  (absent, {}, a non-empty object, [], a    *)
(*          list of job records, a list of block records, a scalar)        *)
(*   err    the "error" member   (absent or {"class": c, "desc": d})       *)
(*   event  the "event" member   (absent or a string)                      *)
(*   data   the "data" member    (absent, {"status","id"}, another object) *)
(*   qmp    the "QMP" member of the greeting                               *)
(***************************************************************************)
Absent == "absent"

Classes == {"GenericError", "DeviceNotFound"}
Descs == {"no such job", "busy"}
ErrorDetail == [class : Classes, desc : Descs]
\* the "error" member is missing
NoError == [class |-> Absent, desc |-> Absent]

RetShapes == {"emptyobj", "obj", "emptylist", "jobs", "blocks", "scalar"}

Obj(r, e, ev, d, q) == [ret |-> r, err |-> e, event |-> ev, data |-> d, qmp |-> q]

GreetingMsg == Obj(Absent, NoError, Absent, Absent, TRUE)
ReturnMsg(r) == Obj(r, NoError, Absent, Absent, FALSE)
ErrorMsg(c, d) == Obj(Absent, [class |-> c, desc |-> d], Absent, Absent, FALSE)
EventMsg(d) == Obj(Absent, NoError, "str", d, FALSE)
\* no object at all
NoMsg == Obj(Absent, NoError, Absent, Absent, FALSE)

\* what a QEMU monitor emits
ServerMsgs ==
    {GreetingMsg}
    \cup {ReturnMsg(r) : r \in RetShapes}
    \cup {ErrorMsg(c, d) : c \in Classes, d \in Descs}
    \cup {EventMsg(d) : d \in {Absent, "job", "other"}}

IsEvent(m) == m.event # Absent
IsErrorReturn(m) == m.err # NoError
IsReturn(m) == m.ret # Absent

\* the response types callers pass to send_command
CallerTypes == {"QueryJobs", "QueryBlock", "GenericReturn", "Value"}

(***************************************************************************)
(* serde_json::from_str::<X>(&buf) for each struct X.  serde ignores       *)
(* unknown members; an Option member may be missing; any other member must *)
(* be present with the right shape.                                        *)
(***************************************************************************)
\* struct Event { timestamp: Option, event: String, data: Option<EventData> }
ParsesAsEvent(m) == m.event = "str" /\ m.data \in {Absent, "job"}

\* struct ErrorReturn { error: ErrorDetail }
ParsesAsErrorReturn(m) == m.err \in ErrorDetail

\* struct GenericReturn { return: Option<HashMap<(),()>>, error: Option<ErrorDetail> }
ParsesAsGenericReturn(m) ==
    /\ m.ret \in {Absent, "emptyobj"}
    /\ m.err \in {NoError} \cup ErrorDetail

\* struct QueryJobs { return: Vec<JobInfo> }
ParsesAsQueryJobs(m) == m.ret \in {"emptylist", "jobs"}

\* struct QueryBlock { return: Vec<Block> }
ParsesAsQueryBlock(m) == m.ret \in {"emptylist", "blocks"}

\* serde_json::from_str::<T>(&buf) for the caller's type T
ParsesAs(T, m) ==
    CASE T = "Value" -> TRUE
      [] T = "GenericReturn" -> ParsesAsGenericReturn(m)
      [] T = "QueryJobs" -> ParsesAsQueryJobs(m)
      [] T = "QueryBlock" -> ParsesAsQueryBlock(m)
      [] T = "Event" -> ParsesAsEvent(m)

\* impl Display for ErrorDetail: "{class}: {desc}"
DisplayErrorDetail(e) == <<e.class, ": ", e.desc>>

\* results of read_input
Ok(m) == [ok |-> TRUE, how |-> "parsed", val |-> m, msg |-> <<>>]
OkDefault(m) == [ok |-> TRUE, how |-> "default", val |-> m, msg |-> <<>>]
Err(m, text) == [ok |-> FALSE, how |-> "error", val |-> m, msg |-> text]
NoResult == [ok |-> FALSE, how |-> "none", val |-> NoMsg, msg |-> <<>>]

\* impl From<GenericReturn> for Result<T>
GenericReturnInto(m) ==
    IF m.err # NoError THEN Err(m, DisplayErrorDetail(m.err)) ELSE OkDefault(m)

(***************************************************************************)
(* Client::read_input<T> on one terminated object m: the order in which    *)
(* the shapes are tried.  "retry" means the object was dropped and the     *)
(* loop reads on.                                                          *)
(***************************************************************************)
Retry == [ok |-> FALSE, how |-> "retry", val |-> NoMsg, msg |-> <<>>]

Classify(T, m) ==
    IF ParsesAs(T, m) THEN Ok(m)
    ELSE IF ParsesAsEvent(m) THEN Retry
    ELSE IF ParsesAsErrorReturn(m) THEN Err(m, DisplayErrorDetail(m.err))
    ELSE IF ParsesAsGenericReturn(m) THEN GenericReturnInto(m)
    ELSE Err(m, <<"parse error">>)

(***************************************************************************)
(* Actions of the QMP session.                                             *)
(***************************************************************************)
InitQmp ==
    /\ sock = <<>>
    /\ qlog = <<>>
    /\ qread = <<>>
    /\ qpc = "idle"
    /\ qtype = "Value"
    /\ qresult = NoResult
    /\ nsent = 0
    /\ ncmds = 0

\* the monitor writes one object (a reply or an asynchronous event)
ServerEmit(m) ==
    /\ nsent < MaxMsgs
    /\ sock' = Append(sock, m)
    /\ qlog' = IF qpc = "reading" THEN Append(qlog, m) ELSE qlog
    /\ nsent' = nsent + 1
    /\ UNCHANGED <<qread, qpc, qtype, qresult, ncmds>>
    /\ UNCHANGED <<svars, cvars, xvars, yvars>>

\* Client::send_command<T>: write the request, then read_input
SendCommand(T) ==
    /\ qpc # "reading"
    /\ ncmds < MaxCmds
    /\ qpc' = "reading"
    /\ qtype' = T
    /\ qlog' = sock
    /\ qread' = <<>>
    /\ qresult' = NoResult
    /\ ncmds' = ncmds + 1
    /\ UNCHANGED <<sock, nsent>>
    /\ UNCHANGED <<svars, cvars, xvars, yvars>>

\* one round of the loop of read_input: a terminated object is in the buffer
ReadObject ==
    /\ qpc = "reading"
    /\ sock # <<>>
    /\ LET m == Head(sock)
           r == Classify(qtype, m)
       IN /\ sock' = Tail(sock)
          /\ qread' = Append(qread, m)
          /\ IF r.how = "retry"
                THEN UNCHANGED <<qpc, qresult>>
                ELSE qpc' = "returned" /\ qresult' = r
    /\ UNCHANGED <<qlog, qtype, nsent, ncmds>>
    /\ UNCHANGED <<svars, cvars, xvars, yvars>>

NextQmp ==
    \/ \E m \in ServerMsgs : ServerEmit(m)
    \/ \E T \in CallerTypes : SendCommand(T)
    \/ ReadObject

(***************************************************************************)
(* Claims about the QMP client, checked under SpecQmp.                     *)
(***************************************************************************)
\* m is the return object of a command whose response type is T
IsReturnFor(T, m) ==
    IsReturn(m) /\ ~IsEvent(m) /\ ~IsErrorReturn(m) /\ ParsesAs(T, m)

\* C1: for every response type T that callers pass, when the server's output
\* after the request is an event followed by the command's return object, the
\* send_command call drops the event and returns the return object; an event
\* is never returned as the result of the command.
C1_EventNeverResult ==
    (qpc = "returned" /\ qtype \in CallerTypes) =>
        /\ qresult.ok => ~IsEvent(qresult.val)
        /\ (Len(qlog) >= 2 /\ IsEvent(qlog[1]) /\ IsReturnFor(qtype, qlog[2]))
              => qresult = Ok(qlog[2])

\* C2: for every response type T that callers pass, when the reply to the
\* command is an error-return {"error": {"class": c, "desc": d}}, send_command
\* returns an error whose message is "c: d" and never returns Ok.
C2_ErrorReplyIsErr ==
    (qpc = "returned" /\ qtype \in CallerTypes /\ IsErrorReturn(qresult.val)) =>
        /\ ~qresult.ok
        /\ qresult.msg = <<qresult.val.err.class, ": ", qresult.val.err.desc>>

(***************************************************************************)
(* Names and paths.  A string is a sequence of characters; a path is a     *)
(* sequence of components, the root directory being the empty path.        *)
(***************************************************************************)
NUL == "NUL"
\* std::path::MAIN_SEPARATOR
Sep == "/"
NameChars == {"a", ".", Sep, NUL}
Dot == <<".">>
DotDot == <<".", ".">>

SeqsUpTo(S, n) == UNION {[1..k -> S] : k \in 0..n}
\* every string a user can give as a VM name
Names == SeqsUpTo(NameChars, MaxNameLen)
\* the two VMs of the lifecycle specifications
VmNames == {<<"a">>, <<"b">>}

\* str::contains
Contains(s, sub) ==
    \E i \in 1..(Len(s) - Len(sub) + 1) : SubSeq(s, i, i + Len(sub) - 1) = sub

\* util::valid_filename
valid_filename(name) ==
    ~(Contains(name, DotDot) \/ Contains(name, <<Sep>>) \/ Contains(name, <<NUL>>))

Root == <<>>
\* dirs::data_dir()
DataDir == << <<"d">> >>
\* XDGConfigStorage::default: dir.join("emu")
BasePath == Append(DataDir, <<"e", "m", "u">>)

\* the components of a path string, empty components dropped
RECURSIVE SplitAcc(_, _, _)
SplitAcc(s, cur, acc) ==
    IF s = <<>> THEN (IF cur = <<>> THEN acc ELSE Append(acc, cur))
    ELSE IF Head(s) = Sep
        THEN SplitAcc(Tail(s), <<>>, IF cur = <<>> THEN acc ELSE Append(acc, cur))
        ELSE SplitAcc(Tail(s), Append(cur, Head(s)), acc)

Components(s) == SplitAcc(s, <<>>, <<>>)

\* XDGConfigStorage::vm_root: base_path().join(name).  PathBuf::join replaces
\* the base when the argument is absolute.
vm_root(name) ==
    [start |-> IF name # <<>> /\ Head(name) = Sep THEN Root ELSE BasePath,
     comps |-> Components(name),
     nul |-> Contains(name, <<NUL>>)]

Parent(p) == IF p = <<>> THEN p ELSE SubSeq(p, 1, Len(p) - 1)

StepInto(p, c) ==
    IF c = Dot THEN p ELSE IF c = DotDot THEN Parent(p) ELSE Append(p, c)

RECURSIVE Walk(_, _)
Walk(p, comps) ==
    IF comps = <<>> THEN p ELSE Walk(StepInto(p, Head(comps)), Tail(comps))

\* the directory the kernel reaches for the path rp
Target(rp) == Walk(rp.start, rp.comps)

\* the path ends in "." or ".."
LastIsDot(rp) ==
    rp.comps # <<>> /\ rp.comps[Len(rp.comps)] \in {Dot, DotDot}

IsPrefix(p, q) == Len(p) <= Len(q) /\ SubSeq(q, 1, Len(p)) = p

(***************************************************************************)
(* The file system: a function from the directories that exist to the      *)
(* files of a VM root that each holds.                                     *)
(*   disks   the d for which qemu-<d>.qcow2 exists                         *)
(*   config  the file config: present, and the port map it holds           *)
(*   pid     the file pid: present, and its text                           *)
(*   mon     the socket mon: 0, or the pid of the emulator that bound it   *)
(***************************************************************************)
DiskIds == 1..MaxClock
Pids == FirstPid..MaxPid

\* the host port DEFAULT_SSH_PORT and the guest port of ssh
HostPorts == {2222}
GuestPorts == {22}

EmptyPorts == [k \in {} |-> 22]
NoConfig == [present |-> FALSE, ports |-> EmptyPorts]
ConfigFile(ports) == [present |-> TRUE, ports |-> ports]
NoPidfile == [present |-> FALSE, text |-> <<>>]
Pidfile(text) == [present |-> TRUE, text |-> text]

EmptyDir == [disks |-> {}, config |-> NoConfig, pid |-> NoPidfile, mon |-> 0]

\* the directories below p, p included
Under(f, p) == {q \in DOMAIN f : IsPrefix(p, q)}

IsEmptyDir(f, p) == f[p] = EmptyDir /\ Under(f, p) = {p}

\* the kernel can walk the path: every directory it passes through exists
Traversable(f, rp) ==
    /\ ~rp.nul
    /\ \A i \in 0..(Len(rp.comps) - 1) :
           Walk(rp.start, SubSeq(rp.comps, 1, i)) \in DOMAIN f

\* util::path_exists: std::fs::metadata(path).is_ok()
path_exists(f, rp) == Traversable(f, rp) /\ Target(rp) \in DOMAIN f

\* XDGConfigStorage::default: create_dir_all(root), its error ignored
EnsureBase(f) ==
    [q \in {DataDir, BasePath} \ DOMAIN f |-> EmptyDir] @@ f

Without(f, S) == [q \in DOMAIN f \ S |-> f[q]]

\* results of the file system calls: the outcome and the new file system
FsOk(f) == [ok |-> TRUE, fs |-> f]
FsErr(f) == [ok |-> FALSE, fs |-> f]

\* std::fs::create_dir_all(path): mkdir of every missing directory on the way
create_dir_all(f, rp) ==
    IF rp.nul THEN FsErr(f)
    ELSE LET made == {Walk(rp.start, SubSeq(rp.comps, 1, i)) : i \in 0..Len(rp.comps)}
         IN FsOk([q \in (made \ DOMAIN f) |-> EmptyDir] @@ f)

\* std::fs::remove_dir_all(path): the entries below are removed first, then
\* rmdir(path), which the kernel refuses for "/", "." and "..".
remove_dir_all(f, rp) ==
    IF ~path_exists(f, rp) THEN FsErr(f)
    ELSE LET t == Target(rp)
         IN IF t = Root \/ LastIsDot(rp)
               THEN FsErr([Without(f, Under(f, t) \ {t}) EXCEPT ![t] = EmptyDir])
               ELSE FsOk(Without(f, Under(f, t)))

\* std::fs::remove_file(root.join("qemu-<d>.qcow2"))
remove_disk(f, rp, d) ==
    IF path_exists(f, rp) /\ d \in f[Target(rp)].disks
        THEN FsOk([f EXCEPT ![Target(rp)].disks = @ \ {d}])
        ELSE FsErr(f)

\* the directory tree at src, moved to dst
MoveTree(f, src, dst) ==
    LET moved == Under(f, src)
        to(q) == dst \o SubSeq(q, Len(src) + 1, Len(q))
    IN [q \in {to(m) : m \in moved} |->
           f[CHOOSE m \in moved : to(m) = q]] @@ Without(f, moved \cup {dst})

\* std::fs::rename(from, to), that is rename(2) on two directories: an
\* existing target is replaced when it is an empty directory; renaming a
\* directory to itself does nothing and succeeds.
rename(f, from, to) ==
    LET src == Target(from)
        dst == Target(to)
    IN IF \/ ~path_exists(f, from)
          \/ ~Traversable(f, to)
          \/ LastIsDot(from) \/ LastIsDot(to)
          \/ src = Root \/ dst = Root
          THEN FsErr(f)
       ELSE IF src = dst THEN FsOk(f)
       ELSE IF IsPrefix(src, dst) THEN FsErr(f)
       ELSE IF dst \in DOMAIN f /\ ~IsEmptyDir(f, dst) THEN FsErr(f)
       ELSE FsOk(MoveTree(f, src, dst))

(***************************************************************************)
(* Decimal text of a number and back.                                      *)
(***************************************************************************)
DigitChars == <<"0", "1", "2", "3", "4", "5", "6", "7", "8", "9">>
IsDigit(c) == \E d \in 1..10 : DigitChars[d] = c
DigitValue(c) == (CHOOSE d \in 1..10 : DigitChars[d] = c) - 1

\* format!("{}", n) and u16::to_string
RECURSIVE ToDecimal(_)
ToDecimal(n) ==
    IF n < 10 THEN <<DigitChars[n + 1]>>
    ELSE Append(ToDecimal(n \div 10), DigitChars[(n % 10) + 1])

RECURSIVE DigitsValue(_, _)
DigitsValue(text, acc) ==
    IF text = <<>> THEN acc
    ELSE DigitsValue(Tail(text), 10 * acc + DigitValue(Head(text)))

\* u32::MAX, as text
U32MaxText == <<"4", "2", "9", "4", "9", "6", "7", "2", "9", "5">>

RECURSIVE StripZeros(_)
StripZeros(text) ==
    IF Len(text) > 1 /\ Head(text) = "0" THEN StripZeros(Tail(text)) ELSE text

\* a <= b, for two digit strings of the same length
RECURSIVE LexLeq(_, _)
LexLeq(a, b) ==
    IF a = <<>> THEN TRUE
    ELSE IF DigitValue(Head(a)) # DigitValue(Head(b))
        THEN DigitValue(Head(a)) < DigitValue(Head(b))
        ELSE LexLeq(Tail(a), Tail(b))

FitsU32(digits) ==
    \/ Len(StripZeros(digits)) < Len(U32MaxText)
    \/ /\ Len(StripZeros(digits)) = Len(U32MaxText)
       /\ LexLeq(StripZeros(digits), U32MaxText)

\* str::parse::<u32>: an optional "+", then one or more digits, no overflow
ParseU32(text) ==
    LET digits == IF text # <<>> /\ Head(text) = "+" THEN Tail(text) ELSE text
    IN IF digits # <<>> /\ (\A i \in 1..Len(digits) : IsDigit(digits[i])) /\ FitsU32(digits)
          THEN [ok |-> TRUE, val |-> DigitsValue(digits, 0)]
          ELSE [ok |-> FALSE, val |-> 0]

(***************************************************************************)
(* Configuration (src/config.rs), reduced to its port map.                 *)
(***************************************************************************)
\* a conflict check that looks at one port map only
is_port_conflict_OneSided(ports, other) == DOMAIN ports # {}

\* Configuration::is_port_conflict
is_port_conflict(ports, other) ==
    \E key \in DOMAIN ports : \E okey \in DOMAIN other : key = okey

\* Configuration::map_port: ports.insert(hostport.to_string(), guestport)
map_port(ports, hostport, guestport) ==
    [k \in DOMAIN ports \cup {ToDecimal(hostport)} |->
        IF k = ToDecimal(hostport) THEN guestport ELSE ports[k]]

\* an unmap that empties the port map
unmap_port_Clear(ports, hostport) == EmptyPorts

\* Configuration::unmap_port: ports.remove(&hostport.to_string())
unmap_port(ports, hostport) ==
    [k \in DOMAIN ports \ {ToDecimal(hostport)} |-> ports[k]]

\* Configuration::from_file: the default when the file cannot be read
from_file(f, rp) ==
    IF path_exists(f, rp) /\ f[Target(rp)].config.present
        THEN f[Target(rp)].config.ports
        ELSE EmptyPorts

\* VM::config of the VM that VM::new(name) builds
config(f, name) == from_file(f, vm_root(name))

\* XDGConfigStorage::write_config, Configuration::to_file: File::create
write_config(f, name, ports) ==
    IF path_exists(f, vm_root(name))
        THEN FsOk([f EXCEPT ![Target(vm_root(name))].config = ConfigFile(ports)])
        ELSE FsErr(f)

(***************************************************************************)
(* Configuration (src/config.rs) in full: the machine values, the port    *)
(* map, and the TOML text of the file config.  A text is a sequence of     *)
(* lines; a line is a table header or a key with an integer or a string.   *)
(***************************************************************************)
\* impl Default for Configuration
DefaultConfiguration ==
    [machine |-> [ssh_port |-> 2222, memory |-> 16384, cpus |-> 8,
                  cpu_type |-> <<"h", "o", "s", "t">>,
                  vga |-> <<"v", "i", "r", "t", "i", "o">>,
                  image_interface |-> <<"v", "i", "r", "t", "i", "o">>],
     ports |-> EmptyPorts]

\* a parse of eight bits
ParseU16_Byte(text) ==
    IF ParseU32(text).ok /\ ParseU32(text).val <= 255
        THEN ParseU32(text)
        ELSE [ok |-> FALSE, val |-> 0]

\* str::parse::<u16>
ParseU16(text) ==
    IF ParseU32(text).ok /\ ParseU32(text).val <= 65535
        THEN ParseU32(text)
        ELSE [ok |-> FALSE, val |-> 0]

\* a setter that takes every key
set_machine_value_AnyKey(c, key, value) == [ok |-> TRUE, conf |-> c]

\* Configuration::set_machine_value
set_machine_value(c, key, value) ==
    LET done(mc) == [ok |-> TRUE, conf |-> [c EXCEPT !.machine = mc]]
        failed == [ok |-> FALSE, conf |-> c]
    IN CASE key = "memory" ->
              IF ParseU32(value).ok
                 THEN done([c.machine EXCEPT !.memory = ParseU32(value).val])
                 ELSE failed
         [] key = "cpus" ->
              IF ParseU32(value).ok
                 THEN done([c.machine EXCEPT !.cpus = ParseU32(value).val])
                 ELSE failed
         [] key = "vga" -> done([c.machine EXCEPT !.vga = value])
         [] key = "image-interface" -> done([c.machine EXCEPT !.image_interface = value])
         [] key = "cpu-type" -> done([c.machine EXCEPT !.cpu_type = value])
         [] key = "ssh-port" ->
              IF ParseU16(value).ok
                 THEN done([c.machine EXCEPT !.ssh_port = ParseU16(value).val])
                 ELSE failed
         [] OTHER -> failed

\* impl Display for Configuration: toml::to_string_pretty(self).  The table
\* of the machine, then the table of the ports with one line for each key.
to_string(c) ==
    LET TableLine(t) == [kind |-> "table", key |-> <<t>>, val |-> <<>>]
        IntLine(k, n) == [kind |-> "int", key |-> k, val |-> ToDecimal(n)]
        StrLine(k, s) == [kind |-> "str", key |-> <<k>>, val |-> s]
        RECURSIVE PortLines(_)
        PortLines(keys) ==
            IF keys = {} THEN <<>>
            ELSE LET k == CHOOSE x \in keys : TRUE
                 IN <<IntLine(k, c.ports[k])>> \o PortLines(keys \ {k})
    IN << TableLine("machine"),
          IntLine(<<"ssh_port">>, c.machine.ssh_port),
          IntLine(<<"memory">>, c.machine.memory),
          IntLine(<<"cpus">>, c.machine.cpus),
          StrLine("cpu_type", c.machine.cpu_type),
          StrLine("vga", c.machine.vga),
          StrLine("image_interface", c.machine.image_interface),
          TableLine("ports") >> \o PortLines(DOMAIN c.ports)

\* toml::from_str::<Configuration>: both tables, every field of the machine
\* once and of its type, every number within the width of its field; keys
\* that are no field are ignored
from_str(text) ==
    LET Lines == 1..Len(text)
        Headers(i) == {j \in 1..i : text[j].kind = "table"}
        TableOf(i) == IF Headers(i) = {} THEN <<"">>
                      ELSE text[CHOOSE j \in Headers(i) : \A k \in Headers(i) : k <= j].key
        table == [i \in Lines |-> TableOf(i)]
        In(t) == {i \in Lines : text[i].kind # "table" /\ table[i] = <<t>>}
        InMachine == In("machine")
        InPorts == In("ports")
        Has(t) == \E i \in Lines : text[i].kind = "table" /\ text[i].key = <<t>>
        At(k) == {i \in InMachine : text[i].key = <<k>>}
        Val(k) == text[CHOOSE i \in At(k) : TRUE].val
        IsInt(k, Parse(_)) ==
            /\ Cardinality(At(k)) = 1
            /\ \A i \in At(k) : text[i].kind = "int" /\ Parse(text[i].val).ok
        IsStr(k) == Cardinality(At(k)) = 1 /\ \A i \in At(k) : text[i].kind = "str"
        PortKeys == {text[i].key : i \in InPorts}
        PortAt(k) == CHOOSE i \in InPorts : text[i].key = k
        wellformed ==
            /\ Has("machine") /\ Has("ports")
            /\ IsInt("ssh_port", ParseU16) /\ IsInt("memory", ParseU32) /\ IsInt("cpus", ParseU32)
            /\ IsStr("cpu_type") /\ IsStr("vga") /\ IsStr("image_interface")
            /\ Cardinality(PortKeys) = Cardinality(InPorts)
            /\ \A i \in InPorts : text[i].kind = "int" /\ ParseU16(text[i].val).ok
    IN IF wellformed
          THEN [ok |-> TRUE,
                conf |-> [machine |-> [ssh_port |-> ParseU16(Val("ssh_port")).val,
                                       memory |-> ParseU32(Val("memory")).val,
                                       cpus |-> ParseU32(Val("cpus")).val,
                                       cpu_type |-> Val("cpu_type"),
                                       vga |-> Val("vga"),
                                       image_interface |-> Val("image_interface")],
                          ports |-> [k \in PortKeys |-> ParseU16(text[PortAt(k)].val).val]]]
          ELSE [ok |-> FALSE, conf |-> DefaultConfiguration]

\* Configuration::from_file: read_to_string(filename).map_or_else(
\*   |_| Self::default(), |x| toml::from_str(&x).unwrap_or_default())
Configuration_from_file(file) ==
    IF file.present THEN from_str(file.text).conf ELSE DefaultConfiguration

(***************************************************************************)
(* Supervisors (src/supervisor.rs).                                        *)
(***************************************************************************)
\* the supervisors hand out the storage of the unit files
SupervisorStorage_Systemd == "systemd"

\* SystemdSupervisor::storage and PidSupervisor::storage
SupervisorStorage == "null"

\* VM::new: the supervisor is Systemd when the unit file of the VM exists
Supervised(u, name) == name \in u

\* SupervisorStorageHandler::remove
storage_remove(u, name) ==
    IF SupervisorStorage = "systemd" /\ name \in u
        THEN [ok |-> TRUE, units |-> u \ {name}]
        ELSE [ok |-> FALSE, units |-> u]

\* SupervisorStorageHandler::create
storage_create(u, name) ==
    IF SupervisorStorage = "systemd"
        THEN [ok |-> TRUE, units |-> u \cup {name}]
        ELSE [ok |-> FALSE, units |-> u]

\* SupervisorHandler::reload of both supervisors is Ok: it never is
reload == FALSE

\* CommandHandler::unsupervise: storage().remove(vm)?; reload()
unsupervise(u, name) ==
    LET r == storage_remove(u, name)
    IN [ok |-> r.ok /\ reload, units |-> r.units]

\* NullSupervisorStorage::service_name
service_name(name) == name

ActiveOk(b) == [ok |-> TRUE, val |-> b]
ActiveErr == [ok |-> FALSE, val |-> FALSE]

\* util::pid_running
pid_running(live, pid) == pid \in live

\* std::fs::read_to_string(pidfile(vm))
read_pidfile(f, name) ==
    IF path_exists(f, vm_root(name))
        THEN f[Target(vm_root(name))].pid
        ELSE NoPidfile

\* PidSupervisor::is_active:
\*   Ok(pid_running(read_to_string(pidfile)?.parse::<u32>()?))
PidIsActive(f, live, name) ==
    LET file == read_pidfile(f, name)
        pid == ParseU32(file.text)
    IN IF ~file.present THEN ActiveErr
       ELSE IF ~pid.ok THEN ActiveErr
       ELSE ActiveOk(pid_running(live, pid.val))

\* SystemdSupervisor::is_active: systemctl --user is-active <service_name>
SystemdIsActive(sv, name) == ActiveOk(service_name(name) \in sv)

\* vm.supervisor().is_active(&vm)
is_active(f, u, sv, live, name) ==
    IF Supervised(u, name) THEN SystemdIsActive(sv, name) ELSE PidIsActive(f, live, name)

\* XDGConfigStorage::vm_list: the names of the entries of the base directory
vm_list(f) ==
    {q[Len(q)] : q \in {d \in DOMAIN f : Len(d) = Len(BasePath) + 1 /\ IsPrefix(BasePath, d)}}

\* XDGConfigStorage::running_vms
running_vms(f, u, sv, live) ==
    IF \E name \in vm_list(f) : ~is_active(f, u, sv, live, name).ok
        THEN [ok |-> FALSE, vms |-> {}]
        ELSE [ok |-> TRUE, vms |-> {name \in vm_list(f) : is_active(f, u, sv, live, name).val}]

(***************************************************************************)
(* The outcome of a command.                                               *)
(*   opok   the operation the command stands for succeeded                 *)
(*   err    the kind of the error met, "" when none                        *)
(*   who    the VM names an error message carries                          *)
(*   retok  the handler returned Ok to Commands::evaluate                  *)
(***************************************************************************)
Succeeded == [opok |-> TRUE, err |-> "", who |-> <<>>, retok |-> TRUE]
Failed(kind) == [opok |-> FALSE, err |-> kind, who |-> <<>>, retok |-> FALSE]
\* the operation failed, the handler printed a notice and returned Ok
Swallowed(kind) == [opok |-> FALSE, err |-> kind, who |-> <<>>, retok |-> TRUE]
\* CommandHandler::run: "{vm} will fail to launch because {running} already
\* occupies a network port it would use"
PortConflict(vm, running) ==
    [opok |-> FALSE, err |-> "port conflict", who |-> <<vm, running>>, retok |-> FALSE]

\* src/bin/emu/main.rs: main prints the error, if any, and returns
ExitStatus(retok) == IF retok THEN 0 ELSE 0

NoDisk == 0
NoName == <<>>

Completed(op, name, name2, disk, flag, out, pid, sent) ==
    [op |-> op, name |-> name, name2 |-> name2, disk |-> disk, flag |-> flag,
     opok |-> out.opok, err |-> out.err, who |-> out.who, retok |-> out.retok,
     exit |-> ExitStatus(out.retok), pid |-> pid, sent |-> sent]

\* no command has just completed
NoCmd == [op |-> "none", name |-> NoName, name2 |-> NoName, disk |-> NoDisk,
          flag |-> FALSE, opok |-> TRUE, err |-> "", who |-> <<>>, retok |-> TRUE,
          exit |-> 0, pid |-> 0, sent |-> FALSE]

(***************************************************************************)
(* The handlers of the store commands, as functions of the file system.    *)
(***************************************************************************)
\* ImageHandler::create(target, gbs): the file qemu-<seconds>.qcow2 must not
\* exist; the image tool creates it, or fails
image_create(f, rp, t, toolok) ==
    IF path_exists(f, rp) /\ t \notin f[Target(rp)].disks /\ toolok
        THEN FsOk([f EXCEPT ![Target(rp)].disks = @ \cup {t}])
        ELSE FsErr(f)

\* CommandHandler::create
handler_create(f, name, append, t, toolok) ==
    IF ~append /\ path_exists(f, vm_root(name))
        THEN [fs |-> f, out |-> Failed("vm already exists")]
    ELSE IF ~append /\ ~valid_filename(name)
        THEN [fs |-> f, out |-> Failed("invalid name")]
    ELSE LET c == IF append THEN FsOk(f) ELSE create_dir_all(f, vm_root(name))
             i == image_create(c.fs, vm_root(name), t, toolok)
         IN IF ~c.ok THEN [fs |-> c.fs, out |-> Failed("io")]
            ELSE [fs |-> i.fs, out |-> IF i.ok THEN Succeeded ELSE Failed("image")]

\* XDGConfigStorage::delete
storage_delete(f, name, disk) ==
    IF ~path_exists(f, vm_root(name)) THEN FsErr(f)
    ELSE IF disk # NoDisk THEN remove_disk(f, vm_root(name), disk)
    ELSE remove_dir_all(f, vm_root(name))

\* CommandHandler::delete; supervised is vm.supervisor().supervised()
handler_delete(f, u, name, disk) ==
    LET d == storage_delete(f, name, disk)
    IN IF ~d.ok
          THEN [fs |-> d.fs, units |-> u,
                out |-> Failed(IF path_exists(f, vm_root(name)) THEN "io" ELSE "vm doesn't exist")]
          ELSE [fs |-> d.fs,
                units |-> IF Supervised(u, name) THEN unsupervise(u, name).units ELSE u,
                out |-> Succeeded]

\* CommandHandler::rename: the error of the storage is printed, not returned
handler_rename(f, old, new) ==
    LET r == rename(f, vm_root(old), vm_root(new))
    IN [fs |-> r.fs, out |-> IF r.ok THEN Succeeded ELSE Swallowed("rename")]

\* CommandHandler::port_map
handler_port_map(f, name, hostport, guestport) ==
    LET w == write_config(f, name, map_port(config(f, name), hostport, guestport))
    IN [fs |-> w.fs, out |-> IF w.ok THEN Succeeded ELSE Failed("io")]

\* CommandHandler::port_unmap
handler_port_unmap(f, name, hostport) ==
    LET w == write_config(f, name, unmap_port(config(f, name), hostport))
    IN [fs |-> w.fs, out |-> IF w.ok THEN Succeeded ELSE Failed("io")]

\* CommandHandler::supervise
handler_supervise(f, u, name) ==
    IF ~path_exists(f, vm_root(name))
        THEN [units |-> u, out |-> Failed("vm doesn't exist")]
    ELSE LET c == storage_create(u, name)
         IN IF ~c.ok THEN [units |-> u, out |-> Failed("storage")]
            ELSE [units |-> c.units, out |-> IF reload THEN Succeeded ELSE Failed("reload")]

\* CommandHandler::unsupervise
handler_unsupervise(u, name) ==
    LET r == storage_remove(u, name)
    IN IF ~r.ok THEN [units |-> u, out |-> Failed("storage")]
       ELSE [units |-> r.units, out |-> IF reload THEN Succeeded ELSE Failed("reload")]

(***************************************************************************)
(* The daemonized child of a detached launch and the shutdown call.        *)
(***************************************************************************)
\* the path of a file that has been unlinked while it was open
Unlinked == << <<NUL>> >>
NoDaemon == [pc |-> "idle", name |-> NoName, root |-> Unlinked, pid |-> 0]
NoShutdown == [pc |-> "idle", name |-> NoName, pid |-> 0, sent |-> FALSE,
               restart |-> FALSE]

\* the file the daemon holds open, after the tree at src has moved to dst
FollowRename(dm, src, dst) ==
    IF dm.pc = "write" /\ IsPrefix(src, dm.root)
        THEN [dm EXCEPT !.root = dst \o SubSeq(dm.root, Len(src) + 1, Len(dm.root))]
        ELSE dm

\* the file the daemon holds open, after the file system has become f
FollowUnlink(dm, f) ==
    IF dm.pc = "write" /\ (dm.root \notin DOMAIN f \/ ~f[dm.root].pid.present)
        THEN [dm EXCEPT !.root = Unlinked]
        ELSE dm

\* UnixStream::connect(monitor_path): an emulator that lives listens there
Connects(f, live, name) ==
    /\ path_exists(f, vm_root(name))
    /\ f[Target(vm_root(name))].mon \in live

\* Emulator::args: the disks of the VM are listed, the configuration is valid
args_ok(f, name) == valid_filename(name) /\ path_exists(f, vm_root(name))

\* the loop of shutdown does not wait
WaitOver_NoWait(live, pid) == TRUE

\* the loop of EmulatorController::shutdown ends:
\*   while let Ok(_) = metadata("/proc/<pid>")
WaitOver(live, pid) == ~pid_running(live, pid)

(***************************************************************************)
(* The values of the parts of the state that a specification does not use. *)
(***************************************************************************)
None == "None"
\* nothing written to the socket, no read_input call yet
NoRead == [stream |-> <<>>, pos |-> 0, buf |-> <<>>, pc |-> "idle", calls |-> 0,
           start |-> 0, ok |-> TRUE, how |-> "none", text |-> <<>>, end1 |-> 0,
           eof |-> FALSE, reset |-> FALSE, spun |-> FALSE]
\* no snapshot command yet: no job in the monitor, no call in the client
NoJob == [listed |-> FALSE, status |-> "null", error |-> None,
          pc |-> "idle", caller |-> "none", res |-> TRUE,
          pending |-> "none", ret |-> "none",
          nq |-> 0, nd |-> 0, lastq |-> "none", qfail |-> "none", gone |-> FALSE]
\* the directory systemd/user without files, no call yet
NoUnits == [files |-> {}, op |-> "none", name |-> NoName, ok |-> TRUE, listed |-> << >>]
\* VM::default()
NoVm == [made |-> FALSE, op |-> "none",
         vm |-> [name |-> NoName, cdrom |-> None, extra_disk |-> None,
                 headless |-> FALSE, config |-> DefaultConfiguration],
         given |-> [cdrom |-> None, extra_disk |-> None, headless |-> FALSE]]
\* no Launcher::launch call yet
NoLaunch == [n |-> 0, ok |-> TRUE, name |-> NoName, detach |-> FALSE,
             cdrom |-> None, extra_disk |-> None]
\* a VM root without entries, no size() call yet
NoTree == [nodes |-> << >>, op |-> "none", ok |-> TRUE, total |-> 0]
\* no session: nothing connected, nothing written
NoSession == [path |-> "none", pc |-> "idle", sent |-> << >>, first |-> NoMsg,
              capsreply |-> NoMsg, reply |-> NoMsg, failed_at |-> "none"]
\* no call of Emulator::args yet
NoArgs == [calls |-> 0, n |-> 0, headless |-> FALSE, cdrom |-> None, extra_disk |-> None,
           conf |-> DefaultConfiguration, ok |-> TRUE, v |-> << >>]
\* the two terminals that run commands are given at the same time
RunProcs == {"first", "second"}
\* no run command in a terminal
NoRun == [pc |-> "idle", name |-> NoName, pid |-> 0, err |-> ""]
NoRace == [p \in RunProcs |-> NoRun]

\* before nc: no task, no channel
NoNc == [pc |-> "idle", ret |-> "none", stdin |-> "none", chan |-> << >>,
         close |-> 0, nread |-> 0, net |-> << >>, eof |-> FALSE,
         sin_end |-> "none", loop_end |-> "none"]

(***************************************************************************)
(* Initial states.                                                         *)
(***************************************************************************)
QuietMachine ==
    /\ services = {}
    /\ alive = {}
    /\ nextpid = FirstPid
    /\ daemon = NoDaemon
    /\ sd = NoShutdown
    /\ cmd = NoCmd
    /\ cw = [pc |-> "idle", name |-> NoName, old |-> DefaultConfiguration,
             conf |-> DefaultConfiguration]
    /\ cres = [op |-> "none", name |-> NoName, key |-> "", value |-> <<>>,
               ok |-> TRUE, before |-> DefaultConfiguration,
               after |-> DefaultConfiguration]
    /\ nops = 0
    /\ answers = <<>>
    /\ rd = NoRead
    /\ job = NoJob
    /\ usys = NoUnits
    /\ vmo = NoVm
    /\ lrun = NoLaunch
    /\ tree = NoTree
    /\ ncs = NoNc
    /\ ses = NoSession
    /\ av = NoArgs
    /\ race = NoRace

Quiet ==
    /\ QuietMachine
    /\ cfile = [name \in VmNames |-> [present |-> FALSE, text |-> <<>>]]

\* a fresh account: the base directory is empty.  The unit file of b may be
\* there already (written by hand or by another version of the program).
InitStore ==
    /\ fs = (Root :> EmptyDir) @@ (DataDir :> EmptyDir) @@ (BasePath :> EmptyDir)
    /\ units \in {{}, {<<"b">>}}
    /\ Quiet

\* the VMs a and b have been created; b has got a disk in every later second
InitVms ==
    /\ fs = (Root :> EmptyDir) @@ (DataDir :> EmptyDir) @@ (BasePath :> EmptyDir)
            @@ (Append(BasePath, <<"a">>) :> [EmptyDir EXCEPT !.disks = {1}])
            @@ (Append(BasePath, <<"b">>) :> [EmptyDir EXCEPT !.disks = DiskIds])
    /\ units \in {{}, {<<"b">>}}
    /\ Quiet

(***************************************************************************)
(* Commands of the store.  Every command builds its CommandHandler, which  *)
(* creates the base directory when it is missing.                          *)
(***************************************************************************)
Create(name, append, t, toolok) ==
    /\ sd.pc = "idle"
    /\ LET r == handler_create(EnsureBase(fs), name, append, t, toolok)
       IN /\ fs' = r.fs
          /\ cmd' = Completed("create", name, NoName, t, append, r.out, 0, FALSE)
    /\ UNCHANGED <<units, services, alive, nextpid, daemon, sd>>
    /\ UNCHANGED <<qvars, cvars, xvars, yvars>>

Delete(name, disk) ==
    /\ sd.pc = "idle"
    /\ LET r == handler_delete(EnsureBase(fs), units, name, disk)
       IN /\ fs' = r.fs
          /\ units' = r.units
          /\ daemon' = FollowUnlink(daemon, r.fs)
          /\ cmd' = Completed("delete", name, NoName, disk, FALSE, r.out, 0, FALSE)
    /\ UNCHANGED <<services, alive, nextpid, sd>>
    /\ UNCHANGED <<qvars, cvars, xvars, yvars>>

Rename(old, new) ==
    /\ sd.pc = "idle"
    /\ LET r == handler_rename(EnsureBase(fs), old, new)
       IN /\ fs' = r.fs
          /\ daemon' = IF r.out.opok
                          THEN FollowRename(daemon, Target(vm_root(old)), Target(vm_root(new)))
                          ELSE daemon
          /\ cmd' = Completed("rename", old, new, NoDisk, FALSE, r.out, 0, FALSE)
    /\ UNCHANGED <<units, services, alive, nextpid, sd>>
    /\ UNCHANGED <<qvars, cvars, xvars, yvars>>

PortMap(name, hostport, guestport) ==
    /\ sd.pc = "idle"
    /\ LET r == handler_port_map(EnsureBase(fs), name, hostport, guestport)
       IN /\ fs' = r.fs
          /\ cmd' = Completed("port_map", name, NoName, NoDisk, FALSE, r.out, 0, FALSE)
    /\ UNCHANGED <<units, services, alive, nextpid, daemon, sd>>
    /\ UNCHANGED <<qvars, cvars, xvars, yvars>>

PortUnmap(name, hostport) ==
    /\ sd.pc = "idle"
    /\ LET r == handler_port_unmap(EnsureBase(fs), name, hostport)
       IN /\ fs' = r.fs
          /\ cmd' = Completed("port_unmap", name, NoName, NoDisk, FALSE, r.out, 0, FALSE)
    /\ UNCHANGED <<units, services, alive, nextpid, daemon, sd>>
    /\ UNCHANGED <<qvars, cvars, xvars, yvars>>

Supervise(name) ==
    /\ sd.pc = "idle"
    /\ LET r == handler_supervise(EnsureBase(fs), units, name)
       IN /\ fs' = EnsureBase(fs)
          /\ units' = r.units
          /\ cmd' = Completed("supervise", name, NoName, NoDisk, FALSE, r.out, 0, FALSE)
    /\ UNCHANGED <<services, alive, nextpid, daemon, sd>>
    /\ UNCHANGED <<qvars, cvars, xvars, yvars>>

Unsupervise(name) ==
    /\ sd.pc = "idle"
    /\ LET r == handler_unsupervise(units, name)
       IN /\ fs' = EnsureBase(fs)
          /\ units' = r.units
          /\ cmd' = Completed("unsupervise", name, NoName, NoDisk, FALSE, r.out, 0, FALSE)
    /\ UNCHANGED <<services, alive, nextpid, daemon, sd>>
    /\ UNCHANGED <<qvars, cvars, xvars, yvars>>

(***************************************************************************)
(* Launch (src/launcher/mod.rs, Launcher::launch) behind                   *)
(* CommandHandler::run.                                                    *)
(***************************************************************************)
RunEnds(f, name, detach, out) ==
    /\ fs' = f
    /\ cmd' = Completed("run", name, NoName, NoDisk, detach, out, 0, FALSE)
    /\ UNCHANGED <<units, services, alive, nextpid, daemon, sd>>

\* detached: daemon() forks and the command ends; the child goes on
LaunchDetached(f, name) ==
    /\ daemon.pc = "idle"
    /\ nextpid <= MaxPid
    /\ fs' = f
    /\ daemon' = [pc |-> "spawn", name |-> name, root |-> Unlinked, pid |-> nextpid]
    /\ nextpid' = nextpid + 1
    /\ cmd' = Completed("run", name, NoName, NoDisk, TRUE, Succeeded, nextpid, FALSE)
    /\ UNCHANGED <<units, services, alive, sd>>

\* attached: spawn, write the pidfile, wait for the emulator to exit
LaunchAttached(f, name, status) ==
    LET root == Target(vm_root(name))
    IN /\ nextpid <= MaxPid
       /\ fs' = [f EXCEPT ![root].pid = Pidfile(ToDecimal(nextpid)),
                          ![root].mon = IF @ \in alive THEN @ ELSE nextpid]
       /\ nextpid' = nextpid + 1
       /\ cmd' = Completed("run", name, NoName, NoDisk, FALSE,
                           IF status = 0 THEN Succeeded ELSE Failed("qemu exited uncleanly"),
                           nextpid, FALSE)
       /\ UNCHANGED <<units, services, alive, daemon, sd>>

\* CommandHandler::run
Run(name, detach, status) ==
    /\ sd.pc = "idle"
    /\ LET f == EnsureBase(fs)
           rv == running_vms(f, units, services, alive)
           conflicts == {r \in rv.vms : is_port_conflict(config(f, r), config(f, name))}
       IN \E running \in (IF conflicts = {} THEN {NoName} ELSE conflicts) :
            IF ~rv.ok THEN RunEnds(f, name, detach, Failed("io"))
            ELSE IF conflicts # {} THEN RunEnds(f, name, detach, PortConflict(name, running))
            ELSE IF ~args_ok(f, name) THEN RunEnds(f, name, detach, Failed("args"))
            ELSE IF detach THEN LaunchDetached(f, name)
            ELSE LaunchAttached(f, name, status)
    /\ UNCHANGED <<qvars, cvars, xvars, yvars>>

\* the daemonized child: cmd.args(args).spawn()
DaemonSpawn ==
    /\ daemon.pc = "spawn"
    /\ alive' = alive \cup {daemon.pid}
    /\ LET rp == vm_root(daemon.name)
       IN fs' = IF path_exists(fs, rp) /\ fs[Target(rp)].mon \notin alive
                   THEN [fs EXCEPT ![Target(rp)].mon = daemon.pid]
                   ELSE fs
    /\ daemon' = [daemon EXCEPT !.pc = "open"]
    /\ cmd' = NoCmd
    /\ UNCHANGED <<units, services, nextpid, sd>>
    /\ UNCHANGED <<qvars, cvars, xvars, yvars>>

\* the daemonized child: std::fs::write opens the pidfile, truncating it
DaemonOpen ==
    /\ daemon.pc = "open"
    /\ LET rp == vm_root(daemon.name)
       IN IF path_exists(fs, rp)
             THEN /\ fs' = [fs EXCEPT ![Target(rp)].pid = Pidfile(<<>>)]
                  /\ daemon' = [daemon EXCEPT !.pc = "write", !.root = Target(rp)]
             ELSE /\ fs' = fs
                  /\ daemon' = NoDaemon
    /\ cmd' = NoCmd
    /\ UNCHANGED <<units, services, alive, nextpid, sd>>
    /\ UNCHANGED <<qvars, cvars, xvars, yvars>>

\* the daemonized child: std::fs::write writes format!("{}", child.id())
DaemonWrite ==
    /\ daemon.pc = "write"
    /\ fs' = IF daemon.root \in DOMAIN fs
                THEN [fs EXCEPT ![daemon.root].pid = Pidfile(ToDecimal(daemon.pid))]
                ELSE fs
    /\ daemon' = NoDaemon
    /\ cmd' = NoCmd
    /\ UNCHANGED <<units, services, alive, nextpid, sd>>
    /\ UNCHANGED <<qvars, cvars, xvars, yvars>>

\* the service manager starts or stops the service it knows under the name
\* that SystemdSupervisor::is_active asks for
ServiceToggle(name) ==
    /\ name \in units
    /\ services' = IF service_name(name) \in services
                      THEN services \ {service_name(name)}
                      ELSE services \cup {service_name(name)}
    /\ cmd' = NoCmd
    /\ UNCHANGED <<fs, units, alive, nextpid, daemon, sd>>
    /\ UNCHANGED <<qvars, cvars, xvars, yvars>>

\* an emulator exits: the guest powered off, or the process was killed
ProcExit(pid) ==
    /\ pid \in alive
    /\ alive' = alive \ {pid}
    /\ cmd' = NoCmd
    /\ UNCHANGED <<fs, units, services, nextpid, daemon, sd>>
    /\ UNCHANGED <<qvars, cvars, xvars, yvars>>

(***************************************************************************)
(* Shutdown: CommandHandler::shutdown over the launcher's shutdown, that   *)
(* is EmulatorController::shutdown (src/launcher/emulators/qemu/mod.rs).   *)
(* The wait variant is a sequence of steps, between which emulators exit   *)
(* and the daemonized child of a launch goes on.                           *)
(***************************************************************************)
\* CommandHandler::shutdown prints the status of a wait that succeeded and
\* returns Ok whatever the wait returned; Launcher::restart returns the
\* error of shutdown_wait (self.shutdown_wait(vm)?)
ShutdownEnds(out) ==
    /\ cmd' = IF sd.restart
                 THEN Completed("restart", sd.name, NoName, NoDisk, FALSE,
                                IF out.opok THEN out ELSE Failed(out.err), sd.pid, sd.sent)
                 ELSE Completed("shutdown", sd.name, NoName, NoDisk, FALSE, out,
                                sd.pid, sd.sent)
    /\ sd' = NoShutdown

\* shutdown without --nowait: monitor_path(name)?, UnixStream::connect
ShutdownBegin(name) ==
    /\ sd.pc = "idle"
    /\ fs' = EnsureBase(fs)
    /\ IF ~valid_filename(name)
          THEN /\ cmd' = Completed("shutdown", name, NoName, NoDisk, FALSE,
                                   Swallowed("invalid name"), 0, FALSE)
               /\ sd' = sd
       ELSE IF ~Connects(EnsureBase(fs), alive, name)
          THEN /\ cmd' = Completed("shutdown", name, NoName, NoDisk, FALSE,
                                   Swallowed("not running or not monitored"), 0, FALSE)
               /\ sd' = sd
       ELSE /\ cmd' = NoCmd
            /\ sd' = [pc |-> "qmp", name |-> name, pid |-> 0, sent |-> FALSE,
                      restart |-> FALSE]
    /\ UNCHANGED <<units, services, alive, nextpid, daemon>>
    /\ UNCHANGED <<qvars, cvars, xvars, yvars>>

\* restart: Launcher::restart begins with shutdown_wait(vm)
RestartBegin(name) ==
    /\ sd.pc = "idle"
    /\ fs' = EnsureBase(fs)
    /\ IF ~valid_filename(name)
          THEN /\ cmd' = Completed("restart", name, NoName, NoDisk, FALSE,
                                   Failed("invalid name"), 0, FALSE)
               /\ sd' = sd
       ELSE IF ~Connects(EnsureBase(fs), alive, name)
          THEN /\ cmd' = Completed("restart", name, NoName, NoDisk, FALSE,
                                   Failed("not running or not monitored"), 0, FALSE)
               /\ sd' = sd
       ELSE /\ cmd' = NoCmd
            /\ sd' = [pc |-> "qmp", name |-> name, pid |-> 0, sent |-> FALSE,
                      restart |-> TRUE]
    /\ UNCHANGED <<units, services, alive, nextpid, daemon>>
    /\ UNCHANGED <<qvars, cvars, xvars, yvars>>

\* handshake, qmp_capabilities, system_powerdown; a write to an emulator
\* that has exited is an error
ShutdownQmp ==
    /\ sd.pc = "qmp"
    /\ IF Connects(fs, alive, sd.name)
          THEN /\ sd' = [sd EXCEPT !.pc = "readpid", !.sent = TRUE]
               /\ cmd' = NoCmd
          ELSE ShutdownEnds(Swallowed("io"))
    /\ UNCHANGED <<fs, units, services, alive, nextpid, daemon>>
    /\ UNCHANGED <<qvars, cvars, xvars, yvars>>

\* read_to_string(pidfile)?.parse::<u32>()?
ShutdownReadPid ==
    /\ sd.pc = "readpid"
    /\ LET file == read_pidfile(fs, sd.name)
           pid == ParseU32(file.text)
       IN IF file.present /\ pid.ok
             THEN /\ sd' = [sd EXCEPT !.pc = "poll", !.pid = pid.val]
                  /\ cmd' = NoCmd
             ELSE ShutdownEnds(Swallowed("pidfile"))
    /\ UNCHANGED <<fs, units, services, alive, nextpid, daemon>>
    /\ UNCHANGED <<qvars, cvars, xvars, yvars>>

\* the loop has ended: remove_file(pidfile)?, Ok(())
ShutdownPoll ==
    /\ sd.pc = "poll"
    /\ ~sd.restart
    /\ WaitOver(alive, sd.pid)
    /\ LET rp == vm_root(sd.name)
       IN IF read_pidfile(fs, sd.name).present
             THEN /\ fs' = [fs EXCEPT ![Target(rp)].pid = NoPidfile]
                  /\ daemon' = FollowUnlink(daemon, fs')
                  /\ ShutdownEnds(Succeeded)
             ELSE /\ fs' = fs
                  /\ daemon' = daemon
                  /\ ShutdownEnds(Swallowed("io"))
    /\ UNCHANGED <<units, services, alive, nextpid>>
    /\ UNCHANGED <<qvars, cvars, xvars, yvars>>

\* restart, once the loop of shutdown_wait has ended: remove_file(pidfile)?,
\* then self.launch_detached(vm): daemon() forks and the command ends
RestartLaunch ==
    /\ sd.pc = "poll"
    /\ sd.restart
    /\ WaitOver(alive, sd.pid)
    /\ daemon.pc = "idle"
    /\ nextpid <= MaxPid
    /\ LET rp == vm_root(sd.name)
           removed == [fs EXCEPT ![Target(rp)].pid = NoPidfile]
       IN IF ~read_pidfile(fs, sd.name).present
             THEN /\ ShutdownEnds(Swallowed("io"))
                  /\ UNCHANGED <<fs, daemon, nextpid>>
          ELSE IF ~args_ok(removed, sd.name)
             THEN /\ ShutdownEnds(Failed("args"))
                  /\ fs' = removed
                  /\ UNCHANGED <<daemon, nextpid>>
          ELSE /\ ShutdownEnds(Succeeded)
               /\ fs' = removed
               /\ daemon' = [pc |-> "spawn", name |-> sd.name, root |-> Unlinked,
                             pid |-> nextpid]
               /\ nextpid' = nextpid + 1
    /\ UNCHANGED <<units, services, alive>>
    /\ UNCHANGED <<qvars, cvars, xvars, yvars>>

\* shutdown --nowait: Launcher::shutdown_immediately
ShutdownNowait(name) ==
    /\ sd.pc = "idle"
    /\ fs' = EnsureBase(fs)
    /\ cmd' = IF Connects(EnsureBase(fs), alive, name)
                 THEN Completed("shutdown", name, NoName, NoDisk, TRUE, Succeeded, 0, TRUE)
                 ELSE Completed("shutdown", name, NoName, NoDisk, TRUE,
                                Failed("not running or not monitored"), 0, FALSE)
    /\ UNCHANGED <<units, services, alive, nextpid, daemon, sd>>
    /\ UNCHANGED <<qvars, cvars, xvars, yvars>>

(***************************************************************************)
(* Specifications.                                                         *)
(***************************************************************************)
\* one QMP session; the machine stays as it is
InitSession == InitQmp /\ InitStore

SpecQmp == InitSession /\ [][NextQmp]_vars

\* the lifecycle of the VMs a and b
Init == InitQmp /\ InitVms

Next ==
    \/ \E name \in VmNames, detach \in BOOLEAN, status \in {0, 1} : Run(name, detach, status)
    \/ DaemonSpawn
    \/ DaemonOpen
    \/ DaemonWrite
    \/ \E pid \in Pids : ProcExit(pid)
    \/ \E name \in VmNames : ServiceToggle(name)
    \/ \E name \in VmNames : ShutdownBegin(name)
    \/ ShutdownQmp
    \/ ShutdownReadPid
    \/ ShutdownPoll
    \/ \E name \in VmNames : RestartBegin(name)
    \/ RestartLaunch
    \/ \E name \in VmNames : ShutdownNowait(name)
    \/ \E name \in VmNames, disk \in DiskIds \cup {NoDisk} : Delete(name, disk)
    \/ \E name \in VmNames, h \in HostPorts, g \in GuestPorts : PortMap(name, h, g)
    \/ \E name \in VmNames, h \in HostPorts : PortUnmap(name, h)

Spec == Init /\ [][Next]_vars

\* the store of the VMs a and b
NextStore ==
    \/ \E name \in VmNames, append \in BOOLEAN, t \in DiskIds, toolok \in BOOLEAN :
           Create(name, append, t, toolok)
    \/ \E name \in VmNames, disk \in DiskIds \cup {NoDisk} : Delete(name, disk)
    \/ \E old \in VmNames, new \in VmNames : Rename(old, new)
    \/ \E name \in VmNames, h \in HostPorts, g \in GuestPorts : PortMap(name, h, g)
    \/ \E name \in VmNames, h \in HostPorts : PortUnmap(name, h)
    \/ \E name \in VmNames : Supervise(name)
    \/ \E name \in VmNames : Unsupervise(name)

InitAccount == InitQmp /\ InitStore

SpecStore == InitAccount /\ [][NextStore]_vars

\* the commands that take a VM name, on every name
HasRoom == Cardinality(DOMAIN fs) < Cardinality({Root, DataDir, BasePath}) + MaxVms

\* create, while the store has room for one more directory
CreateIfRoom(name, append, toolok) ==
    /\ append \/ HasRoom
    /\ Create(name, append, 1, toolok)

NextNames ==
    \/ \E name \in Names, append \in BOOLEAN, toolok \in BOOLEAN :
           CreateIfRoom(name, append, toolok)
    \/ \E name \in Names, disk \in {1, NoDisk} : Delete(name, disk)
    \/ \E new \in Names : Rename(<<"a">>, new)

\* a fresh account that has no unit file
InitNames == InitAccount /\ units = {}

SpecNames == InitNames /\ [][NextNames]_vars

(***************************************************************************)
(* The configuration commands on the files config of the VMs a and b, with *)
(* the whole Configuration and the text of the file.  to_file is           *)
(* File::create, which truncates the file, and then write_all; between     *)
(* the two another command may construct the VM and read the file.         *)
(*   cfile  the file config of each VM: present, and its text              *)
(*   cw     the to_file in progress: the VM, the configuration the file    *)
(*          held, the configuration being written                          *)
(*   cres   the configuration command that has just run                    *)
(*   nops   the configuration commands run so far                          *)
(***************************************************************************)
\* Configuration::to_file, up to File::create(filename)?: the file is empty
ToFileCreate(op, name, key, value, before, after) ==
    /\ cfile' = [cfile EXCEPT ![name] = [present |-> TRUE, text |-> <<>>]]
    /\ cw' = [pc |-> "created", name |-> name,
              old |-> Configuration_from_file(cfile[name]), conf |-> after]
    /\ cres' = [op |-> op, name |-> name, key |-> key, value |-> value,
                ok |-> TRUE, before |-> before, after |-> after]

\* CommandHandler::config_set: an error of set_machine_value is returned
\* before anything is written
ConfigSet(name, key, value) ==
    /\ nops < MaxOps
    /\ cw.pc = "idle"
    /\ nops' = nops + 1
    /\ LET before == Configuration_from_file(cfile[name])
           r == set_machine_value(before, key, value)
       IN IF r.ok /\ path_exists(fs, vm_root(name))
             THEN ToFileCreate("set", name, key, value, before, r.conf)
             ELSE /\ cres' = [op |-> "set", name |-> name, key |-> key, value |-> value,
                              ok |-> FALSE, before |-> before, after |-> before]
                  /\ UNCHANGED <<cfile, cw>>
    /\ UNCHANGED <<qvars, svars, xvars, yvars>>

\* CommandHandler::port_map
ConfigPortMap(name, hostport, guestport) ==
    /\ nops < MaxOps
    /\ cw.pc = "idle"
    /\ nops' = nops + 1
    /\ LET before == Configuration_from_file(cfile[name])
           after == [before EXCEPT !.ports = map_port(before.ports, hostport, guestport)]
       IN IF path_exists(fs, vm_root(name))
             THEN ToFileCreate("port_map", name, "", ToDecimal(hostport), before, after)
             ELSE /\ cres' = [op |-> "port_map", name |-> name, key |-> "",
                              value |-> ToDecimal(hostport), ok |-> FALSE,
                              before |-> before, after |-> before]
                  /\ UNCHANGED <<cfile, cw>>
    /\ UNCHANGED <<qvars, svars, xvars, yvars>>

\* CommandHandler::port_unmap
ConfigPortUnmap(name, hostport) ==
    /\ nops < MaxOps
    /\ cw.pc = "idle"
    /\ nops' = nops + 1
    /\ LET before == Configuration_from_file(cfile[name])
           after == [before EXCEPT !.ports = unmap_port(before.ports, hostport)]
       IN IF path_exists(fs, vm_root(name))
             THEN ToFileCreate("port_unmap", name, "", ToDecimal(hostport), before, after)
             ELSE /\ cres' = [op |-> "port_unmap", name |-> name, key |-> "",
                              value |-> ToDecimal(hostport), ok |-> FALSE,
                              before |-> before, after |-> before]
                  /\ UNCHANGED <<cfile, cw>>
    /\ UNCHANGED <<qvars, svars, xvars, yvars>>

\* CommandHandler::config_copy: to.set_config(from.config()); write_config(to)
ConfigCopy(from, to) ==
    /\ nops < MaxOps
    /\ cw.pc = "idle"
    /\ nops' = nops + 1
    /\ LET before == Configuration_from_file(cfile[to])
           after == Configuration_from_file(cfile[from])
       IN IF path_exists(fs, vm_root(from)) /\ path_exists(fs, vm_root(to))
             THEN ToFileCreate("copy", to, "", from, before, after)
             ELSE /\ cres' = [op |-> "copy", name |-> to, key |-> "", value |-> from,
                              ok |-> FALSE, before |-> before, after |-> before]
                  /\ UNCHANGED <<cfile, cw>>
    /\ UNCHANGED <<qvars, svars, xvars, yvars>>

\* CommandHandler::show_config: VM::new(name) loads the configuration with
\* from_file, whatever another command is doing to the file
ShowConfig(name) ==
    /\ nops < MaxOps
    /\ nops' = nops + 1
    /\ LET seen == Configuration_from_file(cfile[name])
       IN cres' = [op |-> "show", name |-> name, key |-> "", value |-> <<>>,
                   ok |-> TRUE, before |-> seen, after |-> seen]
    /\ UNCHANGED <<cfile, cw>>
    /\ UNCHANGED <<qvars, svars, xvars, yvars>>

\* Configuration::to_file, f.write_all(self.to_string().as_bytes())?
ToFileWrite ==
    /\ cw.pc = "created"
    /\ cfile' = [cfile EXCEPT ![cw.name] = [present |-> TRUE, text |-> to_string(cw.conf)]]
    /\ cw' = [cw EXCEPT !.pc = "idle"]
    /\ cres' = [op |-> "written", name |-> cw.name, key |-> "", value |-> <<>>,
                ok |-> TRUE, before |-> cw.old, after |-> cw.conf]
    /\ nops' = nops
    /\ UNCHANGED <<qvars, svars, xvars, yvars>>

\* the configuration commands on the VMs a and b
NextConfig ==
    \/ \E name \in VmNames,
          key \in {"memory", "cpus", "vga", "image-interface", "cpu-type", "ssh-port",
                   "ssh_port"},
          value \in {<<"0">>, <<"x">>, <<"6", "5", "5", "3", "6">>} :
           ConfigSet(name, key, value)
    \/ \E name \in VmNames, h \in HostPorts \cup {8080}, g \in GuestPorts :
           ConfigPortMap(name, h, g)
    \/ \E name \in VmNames, h \in HostPorts \cup {8080} : ConfigPortUnmap(name, h)
    \/ \E from \in VmNames, to \in VmNames : ConfigCopy(from, to)
    \/ \E name \in VmNames : ShowConfig(name)
    \/ ToFileWrite

InitConfig == InitQmp /\ InitVms /\ units = {}

SpecConfig == InitConfig /\ [][NextConfig]_vars

(***************************************************************************)
(* Claims about the lifecycle, checked under Spec.                         *)
(***************************************************************************)
\* the supervisor of the VM reports it active
ReportsActive(name) == is_active(fs, units, services, alive, name) = ActiveOk(TRUE)

\* the pidfile of the VM is missing, empty, or holds no decimal PID
PidfileUnreadable(name) ==
    ~read_pidfile(fs, name).present \/ ~ParseU32(read_pidfile(fs, name).text).ok

\* C3: whenever shutdown (the wait variant) has returned success, it has sent
\* system_powerdown, the process whose PID it read from the pidfile no longer
\* exists, and the pidfile has been removed.
C3_ShutdownWaitsAndCleans ==
    (cmd.op = "shutdown" /\ ~cmd.flag /\ cmd.opok) =>
        /\ cmd.sent
        /\ ~pid_running(alive, cmd.pid)
        /\ ~read_pidfile(fs, cmd.name).present

\* C3, the case: shutdown (wait) has returned success on a VM whose emulator,
\* started detached, answered on the monitor and had its PID in the pidfile.
C3_Witness ==
    /\ cmd.op = "shutdown" /\ ~cmd.flag /\ cmd.opok
    /\ cmd.pid \in Pids
    /\ path_exists(fs, vm_root(cmd.name))
    /\ fs[Target(vm_root(cmd.name))].mon = cmd.pid

\* C4: whenever some active VM has a port map whose host-port keys intersect
\* those of vm, run(vm) fails with the error that names vm and a running VM,
\* and spawns no emulator.
C4_ConflictRefusesRun ==
    [][(/\ cmd'.op = "run"
        /\ \E r \in vm_list(fs) :
              ReportsActive(r) /\ is_port_conflict(config(fs, r), config(fs, cmd'.name)))
       => /\ ~cmd'.retok
          /\ cmd'.err = "port conflict"
          /\ \E r \in vm_list(fs) : ReportsActive(r) /\ cmd'.who = <<cmd'.name, r>>
          /\ alive' = alive /\ nextpid' = nextpid /\ daemon' = daemon]_vars

\* C5: for a VM whose pidfile is missing, empty or not a decimal PID,
\* PidSupervisor::is_active returns Ok(false); so running_vms() succeeds and
\* leaves out the VMs that were never started.
C5_UnreadablePidfileIsInactive ==
    \A name \in vm_list(fs) :
        PidfileUnreadable(name) =>
            /\ PidIsActive(fs, alive, name) = ActiveOk(FALSE)
            /\ ~Supervised(units, name) =>
                  /\ running_vms(fs, units, services, alive).ok
                  /\ name \notin running_vms(fs, units, services, alive).vms

\* C7: a delete of a VM whose supervisor reports it active fails and removes
\* no file.
C7_ActiveVmIsNotDeleted ==
    [][(cmd'.op = "delete" /\ ReportsActive(cmd'.name))
       => (~cmd'.opok /\ fs' = fs)]_vars

\* C8: delete(vm, Some(d)) removes the file qemu-<d>.qcow2 of the VM root and
\* nothing else: the other disks, the config, the pidfile and the unit file
\* stay as they are.  delete(vm, None) removes the whole VM root and nothing
\* outside it.  The delete of a VM that does not exist fails and changes
\* nothing.
C8_DeleteRemovesExactly ==
    [][cmd'.op = "delete" =>
        LET root == Target(vm_root(cmd'.name))
        IN IF ~path_exists(fs, vm_root(cmd'.name))
              THEN ~cmd'.opok /\ fs' = fs /\ units' = units
           ELSE IF cmd'.disk # NoDisk
              THEN /\ DOMAIN fs' = DOMAIN fs
                   /\ \A q \in DOMAIN fs \ {root} : fs'[q] = fs[q]
                   /\ fs'[root].disks = fs[root].disks \ {cmd'.disk}
                   /\ fs'[root].config = fs[root].config
                   /\ fs'[root].pid = fs[root].pid
                   /\ fs'[root].mon = fs[root].mon
                   /\ units' = units
           ELSE /\ cmd'.opok
                /\ DOMAIN fs' = DOMAIN fs \ Under(fs, root)
                /\ \A q \in DOMAIN fs' : fs'[q] = fs[q]]_vars

\* C8, the case: a disk of a supervised VM has just been deleted; another
\* disk, the config, the pidfile and the unit file of the VM are there.
C8_Witness ==
    /\ cmd.op = "delete" /\ cmd.disk # NoDisk /\ cmd.opok
    /\ cmd.name \in units
    /\ path_exists(fs, vm_root(cmd.name))
    /\ fs[Target(vm_root(cmd.name))].disks # {}
    /\ fs[Target(vm_root(cmd.name))].config.present
    /\ fs[Target(vm_root(cmd.name))].pid.present

\* C10: a command ends with exit status 0 exactly when its operation
\* succeeded; a failed operation ends with a status that is not 0.
C10_ExitStatusTellsFailure ==
    cmd.op # "none" => (cmd.exit = 0 <=> cmd.opok)

(***************************************************************************)
(* Claims about the store, checked under SpecStore.                        *)
(***************************************************************************)
\* C9: rename(old, new) to another name fails whenever new exists, and then
\* leaves both VMs as they were; when it succeeds, old is gone and new holds
\* what old held.
C9_RenameRefusesExisting ==
    [][(cmd'.op = "rename" /\ cmd'.name # cmd'.name2) =>
        LET old == vm_root(cmd'.name)
            new == vm_root(cmd'.name2)
        IN /\ path_exists(fs, new) => (~cmd'.opok /\ fs' = fs)
           /\ cmd'.opok => /\ ~path_exists(fs', old)
                           /\ path_exists(fs', new)
                           /\ fs'[Target(new)] = fs[Target(old)]]_vars

(***************************************************************************)
(* Claims about VM names, checked under SpecNames.                         *)
(***************************************************************************)
\* the name that create, delete and rename-to take
TakenName(c) == IF c.op = "rename" THEN c.name2 ELSE c.name

\* the path lies in a directory that is a direct child of the base directory
InDirectChild(q) == IsPrefix(BasePath, q) /\ Len(q) > Len(BasePath)

\* the directories that a step creates, removes or changes
Touched(f, g) ==
    {q \in DOMAIN f \cup DOMAIN g :
        q \notin DOMAIN f \/ q \notin DOMAIN g \/ f[q] # g[q]}

\* C6: create (with or without --append), delete and rename-to succeed only
\* on a name without "..", path separator and NUL; on any other name they
\* fail with the validation error and touch nothing outside a direct child of
\* the base directory.
C6_OnlyValidNames ==
    [][cmd'.op \in {"create", "delete", "rename"} =>
        /\ cmd'.opok => valid_filename(TakenName(cmd'))
        /\ ~valid_filename(TakenName(cmd')) =>
              /\ cmd'.err = "invalid name"
              /\ \A q \in Touched(EnsureBase(fs), fs') : InDirectChild(q)]_vars

C12_DetachedSuccessHasPidfile ==
    (cmd.op = "run" /\ cmd.flag /\ cmd.opok) =>
        /\ read_pidfile(fs, cmd.name).present
        /\ ParseU32(read_pidfile(fs, cmd.name).text).ok
        /\ ParseU32(read_pidfile(fs, cmd.name).text).val = cmd.pid
        /\ pid_running(alive, cmd.pid)

\* C13: when shutdown (wait) comes to read the pidfile after it has sent
\* system_powerdown and the pidfile is missing or does not parse, the call
\* ends with success.
C13_UnreadablePidfileMeansExited ==
    [][(sd.pc = "readpid" /\ ~sd.restart /\ sd'.pc # "readpid"
          /\ PidfileUnreadable(sd.name)) =>
          (cmd'.op = "shutdown" /\ cmd'.sent /\ cmd'.opok)]_vars

(***************************************************************************)
(* Claims about the configuration, checked under SpecConfig.               *)
(***************************************************************************)
\* the configuration a VM built from the name gets
Stored(name) == Configuration_from_file(cfile[name])

\* the keys of the machine values
MachineKeys == {"memory", "cpus", "vga", "image-interface", "cpu-type", "ssh-port"}

\* a decimal numeral: one or more digits
IsNumeral(value) == value # <<>> /\ \A i \in 1..Len(value) : IsDigit(value[i])

\* C14: after every configuration command the configuration stored for each
\* VM has memory > 0 and cpus > 0, and a set that would make memory or cpus
\* zero is rejected and leaves the files as they were.
C14_StoredConfigurationValid ==
    [][/\ \A name \in VmNames :
             /\ Stored(name)'.machine.memory > 0
             /\ Stored(name)'.machine.cpus > 0
       /\ (/\ cres'.op = "set"
           /\ cres'.key \in {"memory", "cpus"}
           /\ IsNumeral(cres'.value)
           /\ DigitsValue(cres'.value, 0) = 0) => (~cres'.ok /\ cfile' = cfile)]_vars

\* C15 (as stated): config set, which returns what set_machine_value returns,
\* succeeds if and only if the key is one of the six machine keys, whatever
\* the value.
C15_SetSucceedsIffKnownKey ==
    [][cres'.op = "set" => (cres'.ok <=> cres'.key \in MachineKeys)]_vars

\* C15 (amended): set_machine_value succeeds if and only if the key is one
\* of the six machine keys and, for memory and cpus, the value is a numeral
\* of at most 32 bits, for ssh-port, a numeral of at most 16 bits; when it
\* fails the configuration is unchanged.
C15_SetSucceedsOnKnownKeyAndValue ==
    [][cres'.op = "set" =>
          /\ cres'.ok <=>
                /\ cres'.key \in MachineKeys
                /\ cres'.key \in {"memory", "cpus"} =>
                       (IsNumeral(cres'.value) /\ FitsU32(cres'.value))
                /\ cres'.key = "ssh-port" =>
                       (IsNumeral(cres'.value) /\ Len(StripZeros(cres'.value)) <= 5
                          /\ DigitsValue(cres'.value, 0) < 65536)
          /\ ~cres'.ok => (cres'.after = cres'.before /\ cfile' = cfile)]_vars

\* a set of a known key was refused for its value
C15_Witness ==
    /\ cres.op = "set"
    /\ ~cres.ok
    /\ cres.key = "ssh-port"
    /\ cres.value = <<"6", "5", "5", "3", "6">>

\* C16: for the configurations of any two VMs, is_port_conflict is true if
\* and only if their port maps have a host port in common, and it gives the
\* same answer with the two configurations exchanged.
C16_PortConflictIsKeyIntersection ==
    LET ports == [name \in VmNames |-> Stored(name).ports]
    IN \A a \in VmNames, b \in VmNames :
          /\ is_port_conflict(ports[a], ports[b])
               <=> (DOMAIN ports[a] \cap DOMAIN ports[b] # {})
          /\ is_port_conflict(ports[a], ports[b]) <=> is_port_conflict(ports[b], ports[a])

\* a and b have a host port in common and their machine values differ
C16_Witness ==
    /\ DOMAIN Stored(<<"a">>).ports \cap DOMAIN Stored(<<"b">>).ports # {}
    /\ Stored(<<"a">>).machine # Stored(<<"b">>).machine
    /\ is_port_conflict(Stored(<<"a">>).ports, Stored(<<"b">>).ports)

\* C17 (as stated): map_port(h, g) and then unmap_port(h) leave the port map
\* of every stored configuration as it was.
C17_MapUnmapRestores ==
    \A name \in VmNames :
        LET before == Stored(name).ports
        IN \A h \in HostPorts \cup {8080}, g \in GuestPorts :
              unmap_port(map_port(before, h, g), h) = before

\* C17 (amended): map_port(h, g) and then unmap_port(h) leave the port map
\* without the host port h and with every other entry as it was; the port
\* map is as before exactly when h was not mapped before.
C17_MapUnmapRemoves ==
    \A name \in VmNames :
        LET before == Stored(name).ports
        IN \A h \in HostPorts \cup {8080}, g \in GuestPorts :
              LET after == unmap_port(map_port(before, h, g), h)
              IN /\ DOMAIN after = DOMAIN before \ {ToDecimal(h)}
                 /\ \A k \in DOMAIN after : after[k] = before[k]
                 /\ (after = before) <=> (ToDecimal(h) \notin DOMAIN before)

\* a port unmap has run on a VM that had this host port and another mapped
C17_Witness ==
    /\ cres.op = "port_unmap"
    /\ cres.ok
    /\ cres.value \in DOMAIN cres.before.ports
    /\ Cardinality(DOMAIN cres.before.ports) = 2
    /\ DOMAIN cres.after.ports = DOMAIN cres.before.ports \ {cres.value}

\* C18: the text to_file writes for a configuration reads back, with
\* from_file, as that configuration; from_file of a file that is missing or
\* does not parse gives the default configuration.
C18_ConfigRoundTrip ==
    /\ from_str(to_string(cres.after)) = [ok |-> TRUE, conf |-> cres.after]
    /\ cres.op = "written" => Stored(cres.name) = cres.after
    /\ \A name \in VmNames :
           (~cfile[name].present \/ ~from_str(cfile[name].text).ok)
               => Stored(name) = DefaultConfiguration

\* a configuration with a port and machine values of its own has been written
C18_Witness ==
    /\ cres.op = "written"
    /\ cres.after.ports # EmptyPorts
    /\ cres.after.machine.memory # DefaultConfiguration.machine.memory
    /\ cres.after.machine.vga # DefaultConfiguration.machine.vga
    /\ Stored(cres.name) = cres.after

\* C19: a from_file that runs while a to_file on the same file is in
\* progress gets the configuration the file held or the one being written.
C19_ReaderSeesOldOrNew ==
    [][(cres'.op = "show" /\ cw.pc = "created" /\ cres'.name = cw.name) =>
          cres'.after \in {cw.old, cw.conf}]_vars

(***************************************************************************)
(* Claims about supervision, checked under SpecStore.                      *)
(***************************************************************************)
\* C20: supervise on a VM that exists writes its unit file and succeeds, and
\* from then on a VM built from the name is supervised; supervise on a VM
\* that does not exist fails and writes no unit; a unit file goes away only
\* by an unsupervise that succeeds or by the delete of its VM.
C20_SuperviseSelectsServiceManager ==
    [][/\ cmd'.op = "supervise" =>
             IF path_exists(EnsureBase(fs), vm_root(cmd'.name))
                THEN /\ cmd'.opok
                     /\ units' = units \cup {cmd'.name}
                     /\ Supervised(units', cmd'.name)
                ELSE /\ ~cmd'.opok
                     /\ units' = units
       /\ \A name \in units \ units' :
             /\ cmd'.op \in {"unsupervise", "delete"}
             /\ cmd'.name = name]_vars

(***************************************************************************)
(* The VM value (src/vm.rs): its mutators and accessors.  vmo.given keeps  *)
(* what each mutator was last given.                                       *)
(***************************************************************************)
MediaPaths == {"/cdrom", "/disk"}

\* VM::new: the name, every other field at its default
VM_new(name) == [NoVm.vm EXCEPT !.name = name]

set_headless(vm, headless) == [vm EXCEPT !.headless = headless]
set_cdrom(vm, path) == [vm EXCEPT !.cdrom = path]
set_extra_disk(vm, path) == [vm EXCEPT !.extra_disk = path]
set_config(vm, c) == [vm EXCEPT !.config = c]

headless(vm) == vm.headless
cdrom(vm) == vm.cdrom
\* pub fn extra_disk(&self) -> Option<PathBuf> { self.cdrom.clone() }
extra_disk(vm) == vm.cdrom

VmNew(name) ==
    /\ vmo' = [NoVm EXCEPT !.made = TRUE, !.op = "new", !.vm = VM_new(name)]
    /\ UNCHANGED <<answers, rd, job, usys, lrun, tree, ncs, yvars>>
    /\ UNCHANGED <<qvars, svars, cvars>>

VmSetCdrom(path) ==
    /\ vmo.made
    /\ vmo' = [vmo EXCEPT !.op = "set_cdrom", !.vm = set_cdrom(@, path),
                          !.given.cdrom = path]
    /\ UNCHANGED <<answers, rd, job, usys, lrun, tree, ncs, yvars>>
    /\ UNCHANGED <<qvars, svars, cvars>>

VmSetExtraDisk(path) ==
    /\ vmo.made
    /\ vmo' = [vmo EXCEPT !.op = "set_extra_disk", !.vm = set_extra_disk(@, path),
                          !.given.extra_disk = path]
    /\ UNCHANGED <<answers, rd, job, usys, lrun, tree, ncs, yvars>>
    /\ UNCHANGED <<qvars, svars, cvars>>

VmSetHeadless(flag) ==
    /\ vmo.made
    /\ vmo' = [vmo EXCEPT !.op = "set_headless", !.vm = set_headless(@, flag),
                          !.given.headless = flag]
    /\ UNCHANGED <<answers, rd, job, usys, lrun, tree, ncs, yvars>>
    /\ UNCHANGED <<qvars, svars, cvars>>

VmSetConfig(c) ==
    /\ vmo.made
    /\ vmo' = [vmo EXCEPT !.op = "set_config", !.vm = set_config(@, c)]
    /\ UNCHANGED <<answers, rd, job, usys, lrun, tree, ncs, yvars>>
    /\ UNCHANGED <<qvars, svars, cvars>>

NextVm ==
    \/ \E name \in VmNames : VmNew(name)
    \/ \E path \in MediaPaths : VmSetCdrom(path)
    \/ \E path \in MediaPaths : VmSetExtraDisk(path)
    \/ \E flag \in BOOLEAN : VmSetHeadless(flag)
    \/ \E memory \in {0, 512} :
          VmSetConfig([DefaultConfiguration EXCEPT !.machine.memory = memory])

InitVm == InitQmp /\ InitVms /\ units = {}

SpecVm == InitVm /\ [][NextVm]_vars

(***************************************************************************)
(* Claims about the VM value, checked under SpecVm.                        *)
(***************************************************************************)
\* C22: after any sequence of mutator calls each accessor returns what its
\* own mutator was last given (extra_disk() the path last given to
\* set_extra_disk, None when there was no such call, whatever set_cdrom was
\* given; cdrom() the path last given to set_cdrom; headless() the flag last
\* given to set_headless), and a mutator changes no field but its own.
C22_AccessorsReturnLastGiven ==
    [][vmo'.made =>
          /\ extra_disk(vmo'.vm) = vmo'.given.extra_disk
          /\ cdrom(vmo'.vm) = vmo'.given.cdrom
          /\ headless(vmo'.vm) = vmo'.given.headless
          /\ vmo'.op = "set_cdrom" => vmo'.vm = [vmo.vm EXCEPT !.cdrom = vmo'.vm.cdrom]
          /\ vmo'.op = "set_extra_disk" =>
                vmo'.vm = [vmo.vm EXCEPT !.extra_disk = vmo'.vm.extra_disk]
          /\ vmo'.op = "set_headless" =>
                vmo'.vm = [vmo.vm EXCEPT !.headless = vmo'.vm.headless]
          /\ vmo'.op = "set_config" =>
                vmo'.vm = [vmo.vm EXCEPT !.config = vmo'.vm.config]]_vars

(***************************************************************************)
(* The size of a VM (src/config_storage.rs, XDGConfigStorage::size; the    *)
(* same loop is StoragePath::size in src/storage.rs).  tree.nodes maps the *)
(* paths that exist below the VM root to a directory or to a file with its *)
(* length.                                                                 *)
(***************************************************************************)
EntryNames == {"x", "y"}
TreePaths == SeqsUpTo(EntryNames, MaxDepth) \ {<<>>}

DirNode == [dir |-> TRUE, len |-> 0]
FileNode(len) == [dir |-> FALSE, len |-> len]

\* std::fs::read_dir(p): the entries of the directory p itself
read_dir(nodes, p) == {q \in DOMAIN nodes : Len(q) = Len(p) + 1 /\ IsPrefix(p, q)}

RECURSIVE SumLen(_, _)
SumLen(nodes, items) ==
    IF items = {} THEN 0
    ELSE LET item == CHOOSE q \in items : TRUE
         IN nodes[item].len + SumLen(nodes, items \ {item})

\* size: dirs starts as [read_dir(vm_root)] and nothing is pushed to it, so
\* the loop runs once; the entries that are files are kept and their lengths
\* added up
size(nodes) ==
    LET items == {q \in read_dir(nodes, <<>>) : ~nodes[q].dir}
    IN [ok |-> TRUE, total |-> SumLen(nodes, items)]

\* a directory is made below the VM root
TreeMkdir(p) ==
    /\ p \notin DOMAIN tree.nodes
    /\ Len(p) = 1 \/ (Parent(p) \in DOMAIN tree.nodes /\ tree.nodes[Parent(p)].dir)
    /\ tree' = [tree EXCEPT !.nodes = (p :> DirNode) @@ @, !.op = "mkdir"]
    /\ UNCHANGED <<answers, rd, job, usys, vmo, lrun, ncs, yvars>>
    /\ UNCHANGED <<qvars, svars, cvars>>

\* a file is written below the VM root
TreeWrite(p, len) ==
    /\ p \notin DOMAIN tree.nodes
    /\ Len(p) = 1 \/ (Parent(p) \in DOMAIN tree.nodes /\ tree.nodes[Parent(p)].dir)
    /\ tree' = [tree EXCEPT !.nodes = (p :> FileNode(len)) @@ @, !.op = "write"]
    /\ UNCHANGED <<answers, rd, job, usys, vmo, lrun, ncs, yvars>>
    /\ UNCHANGED <<qvars, svars, cvars>>

TreeSize ==
    /\ LET r == size(tree.nodes)
       IN tree' = [tree EXCEPT !.op = "size", !.ok = r.ok, !.total = r.total]
    /\ UNCHANGED <<answers, rd, job, usys, vmo, lrun, ncs, yvars>>
    /\ UNCHANGED <<qvars, svars, cvars>>

NextTree ==
    \/ \E p \in TreePaths : TreeMkdir(p)
    \/ \E p \in TreePaths, len \in 0..MaxFileLen : TreeWrite(p, len)
    \/ TreeSize

InitTree == InitQmp /\ InitVms /\ units = {}

SpecTree == InitTree /\ [][NextTree]_vars

(***************************************************************************)
(* Claims about size, checked under SpecTree.                              *)
(***************************************************************************)
\* C25: size(vm) is the sum of the lengths of all regular files anywhere
\* under the VM root, files in nested directories included; it is 0 for a
\* VM root without files.
C25_SizeSumsAllFiles ==
    tree.op = "size" =>
        /\ tree.ok
        /\ tree.total = SumLen(tree.nodes, {q \in DOMAIN tree.nodes : ~tree.nodes[q].dir})

(***************************************************************************)
(* The unit files (src/supervisor.rs, SystemdSupervisorStorage; the same   *)
(* list is SystemdStorage::list in src/storage.rs).  usys.files holds the  *)
(* names of the files in <config_dir>/systemd/user.                        *)
(***************************************************************************)
EmuDot == <<"e", "m", "u", ".">>
DotService == <<".", "s", "e", "r", "v", "i", "c", "e">>

\* the VM names that units are made for: all pass valid_filename
UnitNames ==
    {<<"a">>, <<"e", "m", "u">>, EmuDot \o <<"a">>, <<"a">> \o DotService}

\* str::starts_with, str::ends_with
starts_with(text, pat) == Len(pat) <= Len(text) /\ SubSeq(text, 1, Len(pat)) = pat
ends_with(text, pat) ==
    Len(pat) <= Len(text) /\ SubSeq(text, Len(text) - Len(pat) + 1, Len(text)) = pat

\* str::trim_start_matches: the prefix is removed as often as it matches
RECURSIVE trim_start_matches(_, _)
trim_start_matches(text, pat) ==
    IF starts_with(text, pat)
        THEN trim_start_matches(SubSeq(text, Len(pat) + 1, Len(text)), pat)
        ELSE text

\* str::trim_end_matches: the suffix is removed as often as it matches
RECURSIVE trim_end_matches(_, _)
trim_end_matches(text, pat) ==
    IF ends_with(text, pat)
        THEN trim_end_matches(SubSeq(text, 1, Len(text) - Len(pat)), pat)
        ELSE text

\* SystemdSupervisorStorage::service_name: format!("emu.{}", vm.name())
systemd_service_name(name) == EmuDot \o name

\* SystemdSupervisorStorage::service_filename, below basedir
service_filename(name) == systemd_service_name(name) \o DotService

\* SystemdSupervisorStorage::list: for each file the name that is pushed
list(files) ==
    LET units_ == {f \in files : starts_with(f, EmuDot) /\ ends_with(f, DotService)}
    IN [f \in units_ |-> trim_end_matches(trim_start_matches(f, EmuDot), DotService)]

\* SystemdSupervisorStorage::create: write(service_filename(vm), template(vm)?)
UnitCreate(name, rendered) ==
    /\ usys' = [usys EXCEPT !.files = IF rendered THEN @ \cup {service_filename(name)} ELSE @,
                            !.op = "create", !.name = name, !.ok = rendered,
                            !.listed = << >>]
    /\ UNCHANGED <<answers, rd, job, vmo, lrun, tree, ncs, yvars>>
    /\ UNCHANGED <<qvars, svars, cvars>>

\* SystemdSupervisorStorage::remove: remove_file(service_filename(vm))
UnitRemove(name) ==
    /\ usys' = [usys EXCEPT !.files = @ \ {service_filename(name)},
                            !.op = "remove", !.name = name,
                            !.ok = service_filename(name) \in usys.files,
                            !.listed = << >>]
    /\ UNCHANGED <<answers, rd, job, vmo, lrun, tree, ncs, yvars>>
    /\ UNCHANGED <<qvars, svars, cvars>>

\* list() after the create or remove that has just run
UnitList ==
    /\ usys.op \in {"create", "remove"}
    /\ usys' = [usys EXCEPT !.op = IF usys.op = "create" THEN "created_list"
                                                         ELSE "removed_list",
                            !.listed = list(usys.files)]
    /\ UNCHANGED <<answers, rd, job, vmo, lrun, tree, ncs, yvars>>
    /\ UNCHANGED <<qvars, svars, cvars>>

NextUnits ==
    \/ \E name \in UnitNames, rendered \in BOOLEAN : UnitCreate(name, rendered)
    \/ \E name \in UnitNames : UnitRemove(name)
    \/ UnitList

InitUnits == InitQmp /\ InitVms /\ units = {}

SpecUnits == InitUnits /\ [][NextUnits]_vars

(***************************************************************************)
(* Claims about the unit files, checked under SpecUnits.                   *)
(***************************************************************************)
\* C21: for every valid VM name n the unit file of n is emu.<n>.service;
\* after create(n) list() gives exactly n for that file, and after remove(n)
\* list() does not contain n.
C21_ListInvertsFileNaming ==
    /\ \A name \in UnitNames :
          /\ valid_filename(name)
          /\ service_filename(name) = <<"e", "m", "u", ".">> \o name \o DotService
    /\ (usys.op = "created_list" /\ usys.ok) =>
          /\ service_filename(usys.name) \in DOMAIN usys.listed
          /\ usys.listed[service_filename(usys.name)] = usys.name
    /\ (usys.op = "removed_list" /\ usys.ok) =>
          \A f \in DOMAIN usys.listed : usys.listed[f] # usys.name

(***************************************************************************)
(* The framing of QMP objects (src/qmp/client.rs, Client::read_input).     *)
(* The monitor runs with pretty=on: an object is a line "{", lines of      *)
(* members indented by spaces, and a line "}", every line ended by CR LF.  *)
(* rd.stream is every byte the monitor has written, rd.pos the number of   *)
(* bytes that read_line has taken out of the BufReader.                    *)
(***************************************************************************)
CR == "CR"
LF == "LF"
\* a closing brace at the end of any line
Sentinel_AnyBrace == <<"}", CR, LF>>

\* buf.ends_with("\r\n}\r\n")
Sentinel == <<CR, LF, "}", CR, LF>>

OpenLine == <<"{", CR, LF>>
\* a member of a reply ("return": ...), of an event ("event": ...)
ReturnLine == <<" ", "r", CR, LF>>
EventLine == <<" ", "e", CR, LF>>
\* the end of a nested object, indented
InnerLine == <<" ", "}", CR, LF>>
CloseLine == <<"}", CR, LF>>
\* the first byte of an object whose first line is not complete yet
Partial == <<"{">>

WirePieces == {OpenLine, ReturnLine, EventLine, InnerLine, CloseLine, Partial}

\* the index of the first LF of text after index from, 0 when there is none
NextLF(text, from) ==
    LET at == {i \in (from + 1)..Len(text) : text[i] = LF}
    IN IF at = {} THEN 0 ELSE CHOOSE i \in at : \A j \in at : i <= j

\* the complete lines of text
RECURSIVE LinesFrom(_, _)
LinesFrom(text, from) ==
    LET nl == NextLF(text, from)
    IN IF nl = 0 THEN <<>>
       ELSE <<SubSeq(text, from + 1, nl)>> \o LinesFrom(text, nl)

\* serde_json::from_str on the text of the buffer, by the members it finds:
\* "reply", "event", "empty" (an object without members), "malformed"
ObjectKind(text) ==
    LET lines == LinesFrom(text, 0)
        n == Len(lines)
    IN IF \/ n < 2
          \/ lines[1] # OpenLine
          \/ lines[n] # CloseLine
          \/ \E i \in 2..(n - 1) : lines[i] \notin {ReturnLine, EventLine, InnerLine}
          THEN "malformed"
       ELSE IF \E i \in 2..(n - 1) : lines[i] = EventLine THEN "event"
       ELSE IF \E i \in 2..(n - 1) : lines[i] = ReturnLine THEN "reply"
       ELSE "empty"

\* the monitor writes a line, or the first byte of one, while the socket is
\* open and fewer than max lines were written
WireWriteUpTo(piece, max) ==
    /\ ~rd.eof /\ ~rd.reset
    /\ piece = Partial \/ Len(LinesFrom(rd.stream, 0)) < max
    /\ IF Len(rd.stream) = 0 THEN TRUE ELSE rd.stream[Len(rd.stream)] = LF
    /\ rd' = [rd EXCEPT !.stream = @ \o piece]
    /\ UNCHANGED <<answers, job, usys, vmo, lrun, tree, ncs, yvars>>
    /\ UNCHANGED <<qvars, svars, cvars>>

WireWrite(piece) == WireWriteUpTo(piece, MaxLines)

\* read_input is called: let mut buf = String::new()
ReadInput ==
    /\ rd.pc \in {"idle", "returned"}
    /\ rd.calls < 2
    /\ rd' = [rd EXCEPT !.pc = "reading", !.buf = <<>>, !.calls = @ + 1,
                        !.start = rd.pos, !.spun = FALSE,
                        !.ok = TRUE, !.how = "none", !.text = <<>>]
    /\ UNCHANGED <<answers, job, usys, vmo, lrun, tree, ncs, yvars>>
    /\ UNCHANGED <<qvars, svars, cvars>>

\* one round of the loop: read_line appends the bytes up to the next LF to
\* buf; when buf ends with the sentinel it is parsed
ReadLine ==
    /\ rd.pc = "reading"
    /\ NextLF(rd.stream, rd.pos) # 0
    /\ LET nl == NextLF(rd.stream, rd.pos)
           buf == rd.buf \o SubSeq(rd.stream, rd.pos + 1, nl)
           kind == ObjectKind(buf)
           returns(ok, how) ==
               [rd EXCEPT !.pos = nl, !.buf = buf, !.pc = "returned", !.ok = ok,
                          !.how = how, !.text = buf,
                          !.end1 = IF rd.calls = 1 THEN nl ELSE @]
       IN rd' = IF ~ends_with(buf, Sentinel) THEN [rd EXCEPT !.pos = nl, !.buf = buf]
                ELSE IF kind = "reply" THEN returns(TRUE, "parsed")
                ELSE IF kind = "event" THEN [rd EXCEPT !.pos = nl, !.buf = <<>>]
                ELSE IF kind = "empty" THEN returns(TRUE, "default")
                ELSE returns(FALSE, "error")
    /\ UNCHANGED <<answers, job, usys, vmo, lrun, tree, ncs, yvars>>
    /\ UNCHANGED <<qvars, svars, cvars>>

NextFrame ==
    \/ \E piece \in WirePieces : WireWrite(piece)
    \/ ReadInput
    \/ ReadLine

InitFrame == InitQmp /\ InitVms /\ units = {}

SpecFrame == InitFrame /\ [][NextFrame]_vars

(***************************************************************************)
(* Claims about the framing, checked under SpecFrame.                      *)
(***************************************************************************)
\* the lines i..j of lines are one object: "{", members, "}"
IsObject(lines, i, j) ==
    /\ i < j
    /\ lines[i] = OpenLine
    /\ lines[j] = CloseLine
    /\ \A k \in (i + 1)..(j - 1) : lines[k] \in {ReturnLine, EventLine, InnerLine}

Flat(lines, i, j) ==
    LET F[k \in (i - 1)..j] == IF k < i THEN <<>> ELSE F[k - 1] \o lines[k]
    IN F[j]

\* the stream starts with complete events (from line i on) and then a reply
\* object: the lines <<i, j>> of that reply, <<0, 0>> when it does not
RECURSIVE FirstReply(_, _)
FirstReply(lines, i) ==
    LET ends == {j \in i..Len(lines) : IsObject(lines, i, j)}
    IN IF ends = {} THEN <<0, 0>>
       ELSE LET j == CHOOSE j \in ends : TRUE
            IN IF \E k \in i..j : lines[k] = EventLine THEN FirstReply(lines, j + 1)
               ELSE IF \E k \in i..j : lines[k] = ReturnLine THEN <<i, j>>
               ELSE <<0, 0>>

MediaOnDisk == {"/cdrom"}
Overrides == {None, "/cdrom", "/gone"}

\* every device is accepted
cdrom_rules_Skip(disk) == TRUE

\* Emulator::cdrom_rules: Ok when there is no override or metadata(cd) is Ok
cdrom_rules(disk) == disk = None \/ disk \in MediaOnDisk

\* Configuration::valid
valid(c) == c.machine.memory # 0 /\ c.machine.cpus # 0

\* Emulator::args is Ok
args(f, file, name, cd, extra) ==
    /\ args_ok(f, name)
    /\ valid(Configuration_from_file(file))
    /\ cdrom_rules(cd)
    /\ cdrom_rules(extra)

\* Launcher::launch
Launch(name, detach, cd, extra, status) ==
    /\ lrun.n < MaxLaunches
    /\ sd.pc = "idle"
    /\ LET f == EnsureBase(fs)
           ok == args(f, cfile[name], name, cd, extra)
       IN /\ lrun' = [n |-> lrun.n + 1, ok |-> ok, name |-> name, detach |-> detach,
                      cdrom |-> cd, extra_disk |-> extra]
          /\ IF ~ok THEN /\ cmd' = Completed("run", name, NoName, NoDisk, detach,
                                             Failed("args"), 0, FALSE)
                         /\ UNCHANGED <<fs, units, services, alive, nextpid, daemon, sd>>
             ELSE IF detach THEN LaunchDetached(fs, name)
             ELSE LaunchAttached(fs, name, status)
    /\ UNCHANGED <<answers, rd, job, usys, vmo, tree, ncs, yvars>>
    /\ UNCHANGED <<qvars, cvars>>

NextLaunch ==
    \/ \E name \in VmNames, detach \in BOOLEAN, cd \in Overrides, extra \in Overrides,
          status \in {0, 1} : Launch(name, detach, cd, extra, status)
    \/ DaemonSpawn
    \/ DaemonOpen
    \/ DaemonWrite
    \/ \E pid \in Pids : ProcExit(pid)

\* the configurations that config set can have stored for a VM
StoredConfigs ==
    {[present |-> FALSE, text |-> <<>>]}
    \cup {[present |-> TRUE,
           text |-> to_string([DefaultConfiguration EXCEPT !.machine.memory = memory,
                                                           !.machine.cpus = cpus])] :
            memory \in {0, 512}, cpus \in {0, 2}}

InitLaunch ==
    /\ InitQmp
    /\ fs = (Root :> EmptyDir) @@ (DataDir :> EmptyDir) @@ (BasePath :> EmptyDir)
            @@ (Append(BasePath, <<"a">>) :> [EmptyDir EXCEPT !.disks = {1}])
            @@ (Append(BasePath, <<"b">>) :> [EmptyDir EXCEPT !.disks = {1}])
    /\ units = {}
    /\ QuietMachine
    /\ cfile \in [VmNames -> StoredConfigs]

SpecLaunch == InitLaunch /\ [][NextLaunch]_vars

(***************************************************************************)
(* Claims about launch with overrides, checked under SpecLaunch.           *)
(***************************************************************************)
\* the launch that has just been called had an override that names a file
\* that does not exist, or an invalid configuration
ArgsMustFail ==
    \/ lrun'.cdrom \notin {None} \cup MediaOnDisk
    \/ lrun'.extra_disk \notin {None} \cup MediaOnDisk
    \/ Configuration_from_file(cfile[lrun'.name]).machine.memory = 0
    \/ Configuration_from_file(cfile[lrun'.name]).machine.cpus = 0

\* C24: a launch whose cdrom or extra-image override names a file that does
\* not exist, or whose configuration has memory or cpus 0, fails; it spawns
\* no process, does not daemonize and writes no pidfile.
C24_BadArgsSpawnNothing ==
    [][(lrun'.n = lrun.n + 1 /\ ArgsMustFail) =>
          /\ ~lrun'.ok
          /\ ~cmd'.opok
          /\ alive' = alive
          /\ nextpid' = nextpid
          /\ daemon' = daemon
          /\ fs' = fs]_vars

C24_Witness ==
    /\ lrun.n = 2 /\ ~lrun.ok /\ lrun.detach
    /\ lrun.cdrom = None /\ lrun.extra_disk = "/gone"
    /\ valid(Configuration_from_file(cfile[lrun.name]))
    /\ alive # {}
    /\ fs[Target(vm_root(lrun.name))].pid = Pidfile(ToDecimal(FirstPid))

(***************************************************************************)
(* One QMP session with a monitor that answers every request once and in   *)
(* order, and emits events at any time.  answers[i] is the number of the   *)
(* request that the i-th object written by the monitor answers.            *)
(***************************************************************************)
Replies == {ReturnMsg(r) : r \in RetShapes} \cup {ErrorMsg("GenericError", "busy")}
Events == {EventMsg(d) : d \in {Absent, "job", "other"}}

\* the requests the monitor has answered
Answered == Cardinality({i \in 1..Len(answers) : answers[i] # 0})

\* the monitor answers the oldest request it has not answered
MonitorReply(m) ==
    /\ nsent < MaxMsgs
    /\ Answered < ncmds
    /\ sock' = Append(sock, m)
    /\ qlog' = IF qpc = "reading" THEN Append(qlog, m) ELSE qlog
    /\ nsent' = nsent + 1
    /\ answers' = Append(answers, Answered + 1)
    /\ UNCHANGED <<qread, qpc, qtype, qresult, ncmds>>
    /\ UNCHANGED <<rd, job, usys, vmo, lrun, tree, ncs, yvars>>
    /\ UNCHANGED <<svars, cvars>>

\* the monitor emits an event
MonitorEvent(m) ==
    /\ nsent < MaxMsgs
    /\ sock' = Append(sock, m)
    /\ qlog' = IF qpc = "reading" THEN Append(qlog, m) ELSE qlog
    /\ nsent' = nsent + 1
    /\ answers' = Append(answers, 0)
    /\ UNCHANGED <<qread, qpc, qtype, qresult, ncmds>>
    /\ UNCHANGED <<rd, job, usys, vmo, lrun, tree, ncs, yvars>>
    /\ UNCHANGED <<svars, cvars>>

NextPaired ==
    \/ \E m \in Replies : MonitorReply(m)
    \/ \E m \in Events : MonitorEvent(m)
    \/ \E T \in CallerTypes : SendCommand(T)
    \/ ReadObject

InitPaired == InitQmp /\ InitVms /\ units = {}

SpecPaired == InitPaired /\ [][NextPaired]_vars

(***************************************************************************)
(* Claims about the pairing of requests and replies, checked under         *)
(* SpecPaired.                                                             *)
(***************************************************************************)
\* C27: a request is written only when the call before it has returned, and
\* what the k-th send_command returns is the monitor's answer to the k-th
\* request: not an event and not the answer to an earlier request, whatever
\* events the monitor emits.
C27_RepliesStayPaired ==
    [][/\ ncmds' = ncmds + 1 => qpc # "reading"
       /\ (qpc = "reading" /\ qpc' = "returned") =>
             answers[nsent - Len(sock')] = ncmds]_vars

(***************************************************************************)
(* The job of a snapshot command (src/qmp/client.rs: cleanup_job,          *)
(* wait_for_job, delete_job).  The monitor answers every command; events   *)
(* do not parse as QueryJobs and are dropped by read_input.                *)
(*   job.listed, status, error   the job "snapshot" in the monitor         *)
(*   job.pc      "idle", "poll" (wait_for_job before jobs()), "sleep"      *)
(*               (wait_for_job before its sleep), "dismiss"                *)
(*               (delete_job before job-dismiss), "deleted" (delete_job    *)
(*               has returned), "waited" (wait_for_job has returned),      *)
(*               "returned" (cleanup_job has returned)                     *)
(*   job.caller  who called the delete_job that runs                       *)
(*   job.pending what wait_for_job returns, job.ret what cleanup_job does  *)
(*   job.nq, nd  query-jobs and job-dismiss commands sent                  *)
(*   job.lastq   what the last query-jobs showed of the job                *)
(*   job.qfail   the error of a query-jobs command that failed             *)
(*   job.gone    the last reply delete_job read, taken as a list of jobs,  *)
(*               was a result without the job                              *)
(***************************************************************************)
JobId == "snapshot"
JobStatuses == {"created", "running", "concluded", "null"}
\* how a command ends: the monitor's reply is processed, the monitor answers
\* with an error, the socket fails
Outcomes == {"reply", "error", "io"}

\* every status ends the wait
Done_Any(status) == TRUE

\* "concluded" | "null"
Done(status) == status \in {"concluded", "null"}

\* the answer of the monitor to query-jobs: another job is always listed
JobsListed(j) ==
    <<[id |-> "other", status |-> "concluded", error |-> "x"]>>
    \o (IF j.listed THEN <<[id |-> JobId, status |-> j.status, error |-> j.error]>>
        ELSE <<>>)

\* send_command::<QueryJobs>: the list it returns, or the error
QueryJobsResult(outcome, msg, listed) ==
    IF outcome = "io" THEN [ok |-> FALSE, list |-> <<>>, err |-> "io"]
    ELSE LET r == Classify("QueryJobs", msg)
         IN IF ~r.ok THEN [ok |-> FALSE, list |-> <<>>, err |-> "monitor"]
            ELSE IF r.how = "parsed" THEN [ok |-> TRUE, list |-> listed, err |-> "none"]
            ELSE [ok |-> TRUE, list |-> <<>>, err |-> "none"]

\* the first entry of the list with the id: for job in jobs.result { if job.id == id
FindJob(jobs, id) ==
    LET at == {i \in 1..Len(jobs) : jobs[i].id = id}
    IN IF at = {} THEN 0 ELSE CHOOSE i \in at : \A k \in at : i <= k

\* a failed jobs() is slept on like a job that still runs
wait_for_job_KeepsPolling(r, id) ==
    IF ~r.ok THEN "poll"
    ELSE LET at == {i \in 1..Len(r.list) : r.list[i].id = id}
         IN IF at = {} THEN "poll"
            ELSE LET i == CHOOSE k \in at : \A n \in at : k <= n
                 IN IF r.list[i].status \in {"concluded", "null"}
                       THEN (IF r.list[i].error # None THEN "job_error" ELSE "ok")
                    ELSE "poll"

\* one round of the loop of wait_for_job on the result r of jobs(): "poll"
\* (sleep and ask again) or the value to return after delete_job
wait_for_job(r, id) ==
    IF ~r.ok THEN r.err
    ELSE LET i == FindJob(r.list, id)
         IN IF i = 0 THEN "poll"
            ELSE IF Done(r.list[i].status)
                    THEN (IF r.list[i].error # None THEN "job_error" ELSE "ok")
            ELSE "poll"

\* one round of the loop of delete_job on the result r of job-dismiss: TRUE
\* when the loop goes on
delete_job(r, id) == r.ok /\ FindJob(r.list, id) # 0

\* snapshot_save, snapshot_load, snapshot_delete: the command has been sent
\* and answered, cleanup_job(res, "snapshot") begins
SnapshotBegin(resok, started) ==
    /\ job.pc = "idle"
    /\ job' = [job EXCEPT !.pc = "poll", !.res = resok, !.listed = started,
                          !.status = IF started THEN "created" ELSE "null"]
    /\ UNCHANGED <<answers, rd, usys, vmo, lrun, tree, ncs, yvars>>
    /\ UNCHANGED <<qvars, svars, cvars>>

\* the job goes on in the monitor
JobStep(err) ==
    /\ job.listed
    /\ job.status \in {"created", "running", "concluded"}
    /\ job' = [job EXCEPT !.status = IF @ = "created" THEN "running"
                                     ELSE IF @ = "running" THEN "concluded"
                                     ELSE "null",
                          !.error = IF job.status = "running" THEN err ELSE @]
    /\ UNCHANGED <<answers, rd, usys, vmo, lrun, tree, ncs, yvars>>
    /\ UNCHANGED <<qvars, svars, cvars>>

\* wait_for_job: let res = self.jobs(); and what follows in the loop
Poll(outcome) ==
    /\ job.pc = "poll"
    /\ LET msg == IF outcome = "error" THEN ErrorMsg("GenericError", "busy")
                  ELSE ReturnMsg("jobs")
           r == QueryJobsResult(outcome, msg, JobsListed(job))
           w == wait_for_job(r, JobId)
           i == FindJob(r.list, JobId)
       IN job' = [job EXCEPT !.nq = IF @ < MaxPolls THEN @ + 1 ELSE @,
                             !.lastq = IF ~r.ok THEN "failed"
                                       ELSE IF i = 0 THEN "absent"
                                       ELSE r.list[i].status,
                             !.qfail = IF r.ok THEN @ ELSE r.err,
                             !.pending = IF w = "poll" THEN @ ELSE w,
                             !.pc = IF w = "poll" THEN "sleep" ELSE "dismiss",
                             !.caller = IF w = "poll" THEN @ ELSE "wait_for_job",
                             !.gone = FALSE]
    /\ UNCHANGED <<answers, rd, usys, vmo, lrun, tree, ncs, yvars>>
    /\ UNCHANGED <<qvars, svars, cvars>>

\* wait_for_job: std::thread::sleep(...) and the next round of the loop
Sleep ==
    /\ job.pc = "sleep"
    /\ job' = [job EXCEPT !.pc = "poll"]
    /\ UNCHANGED <<answers, rd, usys, vmo, lrun, tree, ncs, yvars>>
    /\ UNCHANGED <<qvars, svars, cvars>>

\* delete_job: send_command::<QueryJobs>("job-dismiss", {"id": id}) and what
\* follows in the loop.  The monitor dismisses a concluded job and answers
\* {"return": {}}; it answers with an error for any other job.
Dismiss(outcome) ==
    /\ job.pc = "dismiss"
    /\ outcome = "reply" => (job.listed /\ job.status = "concluded")
    /\ LET msg == IF outcome = "error" THEN ErrorMsg("GenericError", "no such job")
                  ELSE ReturnMsg("emptyobj")
           r == QueryJobsResult(outcome, msg, <<>>)
       IN job' = [job EXCEPT !.nd = @ + 1,
                             !.listed = IF outcome = "reply" THEN FALSE ELSE @,
                             !.status = IF outcome = "reply" THEN "null" ELSE @,
                             !.gone = r.ok /\ FindJob(r.list, JobId) = 0,
                             !.pc = IF delete_job(r, JobId) THEN "dismiss" ELSE "deleted"]
    /\ UNCHANGED <<answers, rd, usys, vmo, lrun, tree, ncs, yvars>>
    /\ UNCHANGED <<qvars, svars, cvars>>

\* delete_job returns Ok(()) to wait_for_job, which returns, or to
\* cleanup_job, which returns the error of wait_for_job
DeleteReturns ==
    /\ job.pc = "deleted"
    /\ job' = IF job.caller = "wait_for_job" THEN [job EXCEPT !.pc = "waited"]
              ELSE [job EXCEPT !.pc = "returned", !.ret = job.pending]
    /\ UNCHANGED <<answers, rd, usys, vmo, lrun, tree, ncs, yvars>>
    /\ UNCHANGED <<qvars, svars, cvars>>

\* cleanup_job after wait_for_job
CleanupJob ==
    /\ job.pc = "waited"
    /\ job' = IF job.pending # "ok"
                 THEN [job EXCEPT !.pc = "dismiss", !.caller = "cleanup_job"]
              ELSE IF ~job.res THEN [job EXCEPT !.pc = "returned", !.ret = "res_error"]
              ELSE [job EXCEPT !.pc = "returned", !.ret = "ok"]
    /\ UNCHANGED <<answers, rd, usys, vmo, lrun, tree, ncs, yvars>>
    /\ UNCHANGED <<qvars, svars, cvars>>

NextJobs ==
    \/ \E resok \in BOOLEAN, started \in BOOLEAN : SnapshotBegin(resok, started)
    \/ \E err \in {None, "failed"} : JobStep(err)
    \/ \E outcome \in Outcomes : Poll(outcome)
    \/ Sleep
    \/ \E outcome \in Outcomes : Dismiss(outcome)
    \/ DeleteReturns
    \/ CleanupJob

InitJobs == InitQmp /\ InitVms /\ units = {}

SpecJobs == InitJobs /\ [][NextJobs]_vars

\* the client runs, the monitor answers its commands, and the job it has
\* goes on; no command is bound to fail
SpecJobsFair ==
    /\ SpecJobs
    /\ WF_vars(\E err \in {None, "failed"} : JobStep(err))
    /\ WF_vars(Poll("reply"))
    /\ WF_vars(Sleep)
    /\ WF_vars(\E outcome \in Outcomes : Dismiss(outcome))
    /\ WF_vars(DeleteReturns)
    /\ WF_vars(CleanupJob)

(***************************************************************************)
(* Claims about snapshot jobs, checked under SpecJobs                      *)
(***************************************************************************)

C35_FailedSnapshotReturns ==
    (job.pc = "poll" /\ ~job.res /\ ~job.listed) ~> (job.pc = "returned")

\* C29: whenever delete_job returns, the client has seen a list of jobs that
\* does not hold the id
C29_DeleteReturnsAfterJobGone ==
    job.pc = "deleted" => job.gone

\* C30: a failed query-jobs ends the polling, a job-dismiss follows, and the
\* snapshot operation returns the error of the query-jobs
C30_FailedQueryEndsWait ==
    job.qfail # "none" =>
        /\ job.lastq = "failed"
        /\ job.pc \notin {"poll", "sleep"}
        /\ (job.pc = "dismiss" /\ job.caller = "wait_for_job") \/ job.nd >= 1
        /\ job.pc = "returned" => (job.ret = job.qfail /\ job.nd >= 2)

\* C30 witness: the second query-jobs failed on the socket, two job-dismiss
\* were sent and the snapshot operation has returned that error
C30_Witness ==
    /\ job.pc = "returned"
    /\ job.qfail = "io"
    /\ job.ret = "io"
    /\ job.nq = 2
    /\ job.nd = 2

(***************************************************************************)
(* The port forwarder (src/command_handler.rs: nc): the task that reads    *)
(* standard input and the loop that drives the socket, with the channel of *)
(* buffers and the closure channel between them.                           *)
(*   ncs.pc      "idle", "connect" (the task is spawned), "ready" (at      *)
(*               stream.ready), "check" (at the try_recv of the closure    *)
(*               channel), "returned"                                      *)
(*   ncs.ret     what nc returned                                          *)
(*   ncs.stdin   the task: "none", "read", "check", "closing", "done"      *)
(*   ncs.chan    buffers sent by the task and not yet taken                *)
(*   ncs.close   messages in the closure channel                           *)
(*   ncs.nread, net   buffers read from standard input, written to the     *)
(*               socket                                                    *)
(*   ncs.eof     standard input has reached its end                        *)
(*   ncs.sin_end, loop_end   how the task and the loop ended               *)
(***************************************************************************)
ReadyStates == (SUBSET {"readable", "writable", "error"}) \ {{}}

\* the closure channel never has a message for the receiver
try_recv_Empty(n) == FALSE

\* close_r.lock().await.try_recv().is_ok()
try_recv(n) == n > 0

\* nc up to tokio::spawn: without the port in the configuration nothing runs
NcSpawn(mapped) ==
    /\ ncs.pc = "idle"
    /\ ncs' = IF mapped THEN [ncs EXCEPT !.pc = "connect", !.stdin = "read"]
              ELSE [ncs EXCEPT !.pc = "returned", !.ret = "Ok", !.loop_end = "unmapped"]
    /\ UNCHANGED <<answers, rd, job, usys, vmo, lrun, tree, yvars>>
    /\ UNCHANGED <<qvars, svars, cvars>>

\* TcpStream::connect(...).await?
NcConnect(ok) ==
    /\ ncs.pc = "connect"
    /\ ncs' = IF ok THEN [ncs EXCEPT !.pc = "ready"]
              ELSE [ncs EXCEPT !.pc = "returned", !.ret = "Err", !.loop_end = "io"]
    /\ UNCHANGED <<answers, rd, job, usys, vmo, lrun, tree, yvars>>
    /\ UNCHANGED <<qvars, svars, cvars>>

\* the task: tokio::io::stdin().read(&mut buf).await and the branch on size
StdinRead(kind) ==
    /\ ncs.stdin = "read"
    /\ kind = "data" => ncs.nread < MaxReads
    /\ ncs' = IF kind = "data"
                 THEN [ncs EXCEPT !.nread = @ + 1, !.chan = Append(@, ncs.nread + 1),
                                  !.stdin = "check"]
              ELSE [ncs EXCEPT !.stdin = "closing", !.eof = (kind = "eof") \/ @]
    /\ UNCHANGED <<answers, rd, job, usys, vmo, lrun, tree, yvars>>
    /\ UNCHANGED <<qvars, svars, cvars>>

\* the task: if close_r2.lock().await.try_recv().is_ok() { return; }
StdinCheck ==
    /\ ncs.stdin = "check"
    /\ ncs' = IF try_recv(ncs.close)
                 THEN [ncs EXCEPT !.close = @ - 1, !.stdin = "done", !.sin_end = "closed"]
              ELSE [ncs EXCEPT !.stdin = "read"]
    /\ UNCHANGED <<answers, rd, job, usys, vmo, lrun, tree, yvars>>
    /\ UNCHANGED <<qvars, svars, cvars>>

\* the task: close_s2.send(()).unwrap() after the loop
StdinClose ==
    /\ ncs.stdin = "closing"
    /\ ncs' = [ncs EXCEPT !.close = @ + 1, !.stdin = "done", !.sin_end = "eof"]
    /\ UNCHANGED <<answers, rd, job, usys, vmo, lrun, tree, yvars>>
    /\ UNCHANGED <<qvars, svars, cvars>>

\* the loop from stream.ready(interest).await? to the writes; failed is a
\* ready, a write to standard output or a write to the socket that is Err
SockReady(state, failed) ==
    /\ ncs.pc = "ready"
    /\ ncs' = IF failed
                 THEN [ncs EXCEPT !.pc = "returned", !.ret = "Err", !.loop_end = "io"]
              ELSE IF "error" \in state
                 THEN [ncs EXCEPT !.close = @ + 1, !.pc = "returned", !.ret = "Ok",
                                  !.loop_end = "error"]
              ELSE IF "writable" \in state
                 THEN [ncs EXCEPT !.net = @ \o ncs.chan, !.chan = << >>,
                                  !.pc = "check"]
              ELSE [ncs EXCEPT !.pc = "check"]
    /\ UNCHANGED <<answers, rd, job, usys, vmo, lrun, tree, yvars>>
    /\ UNCHANGED <<qvars, svars, cvars>>

\* the loop: if close_r.lock().await.try_recv().is_ok() { break; } and Ok(())
SockCheck ==
    /\ ncs.pc = "check"
    /\ ncs' = IF try_recv(ncs.close)
                 THEN [ncs EXCEPT !.close = @ - 1, !.pc = "returned", !.ret = "Ok",
                                  !.loop_end = "closed"]
              ELSE [ncs EXCEPT !.pc = "ready"]
    /\ UNCHANGED <<answers, rd, job, usys, vmo, lrun, tree, yvars>>
    /\ UNCHANGED <<qvars, svars, cvars>>

NextNc ==
    \/ \E mapped \in BOOLEAN : NcSpawn(mapped)
    \/ \E ok \in BOOLEAN : NcConnect(ok)
    \/ \E kind \in {"data", "eof", "err"} : StdinRead(kind)
    \/ StdinCheck
    \/ StdinClose
    \/ \E state \in ReadyStates, failed \in BOOLEAN : SockReady(state, failed)
    \/ SockCheck

InitNc == InitQmp /\ InitVms /\ units = {}

SpecNc == InitNc /\ [][NextNc]_vars

\* the runtime runs both tasks: a task that can go on does; the connect and
\* the wait for readiness complete (the interest holds WRITABLE); the read of
\* standard input waits for the user
SpecNcFair ==
    /\ SpecNc
    /\ WF_vars(\E ok \in BOOLEAN : NcConnect(ok))
    /\ WF_vars(StdinCheck)
    /\ WF_vars(StdinClose)
    /\ WF_vars(\E state \in ReadyStates, failed \in BOOLEAN : SockReady(state, failed))
    /\ WF_vars(SockCheck)

(***************************************************************************)
(* Claims about the port forwarder, checked under SpecNcFair               *)
(***************************************************************************)

C39_ClosureDropsNoData ==
    (ncs.pc = "returned" /\ ncs.loop_end = "closed" /\ ncs.eof) =>
        ncs.net = [i \in 1..ncs.nread |-> i]

SessionPaths == {"qmp", "shutdown"}

ErrorMsgs == {ErrorMsg(c, d) : c \in Classes, d \in Descs}

\* what a monitor can write first, to qmp_capabilities, and to a command
FirstObjects == {GreetingMsg, EventMsg(Absent)} \cup ErrorMsgs
CapabilitiesReplies == {ReturnMsg("emptyobj")} \cup ErrorMsgs
CommandReplies == {ReturnMsg(r) : r \in RetShapes} \cup ErrorMsgs

\* one read of an object m as the type T: Client::read_input::<T> on the qmp
\* path, UnixSocket::read_input (a Value of whatever parses) on the shutdown
\* path; io is a read or write that returns Err.  TRUE when the call is Ok.
SessionRead(path, T, m, io) ==
    IF io THEN FALSE
    ELSE IF path = "shutdown" THEN TRUE
    ELSE Classify(T, m).ok

\* Client::new(monitor_path)?  /  UnixStream::connect(monitor_path)
SessionOpen(path, connected) ==
    /\ ses.pc = "idle"
    /\ ses' = IF connected THEN [ses EXCEPT !.path = path, !.pc = "connected"]
              ELSE [ses EXCEPT !.path = path, !.pc = "failed", !.failed_at = "connect"]
    /\ UNCHANGED <<av, race>>
    /\ UNCHANGED <<qvars, svars, cvars, xvars>>

\* us.handshake()?
SessionHandshake(m, io) ==
    /\ ses.pc = "connected"
    /\ ses' = IF SessionRead(ses.path, "Event", m, io)
                 THEN [ses EXCEPT !.pc = "shaken", !.first = m]
              ELSE [ses EXCEPT !.pc = "failed", !.first = m, !.failed_at = "handshake"]
    /\ UNCHANGED <<av, race>>
    /\ UNCHANGED <<qvars, svars, cvars, xvars>>

\* us.send_command("qmp_capabilities", None)?
SessionCapabilities(m, io) ==
    /\ ses.pc = "shaken"
    /\ ses' = IF SessionRead(ses.path, "Value", m, io)
                 THEN [ses EXCEPT !.pc = "negotiated", !.capsreply = m,
                                  !.sent = Append(@, "qmp_capabilities")]
              ELSE [ses EXCEPT !.pc = "failed", !.capsreply = m,
                               !.sent = Append(@, "qmp_capabilities"),
                               !.failed_at = "qmp_capabilities"]
    /\ UNCHANGED <<av, race>>
    /\ UNCHANGED <<qvars, svars, cvars, xvars>>

\* us.send_command(command, args)?  /  us.send_command("system_powerdown", None)?
SessionCommand(m, io) ==
    /\ ses.pc = "negotiated"
    /\ ses' = IF SessionRead(ses.path, "Value", m, io)
                 THEN [ses EXCEPT !.pc = "done", !.reply = m,
                                  !.sent = Append(@, "command")]
              ELSE [ses EXCEPT !.pc = "failed", !.reply = m,
                               !.sent = Append(@, "command"),
                               !.failed_at = "command"]
    /\ UNCHANGED <<av, race>>
    /\ UNCHANGED <<qvars, svars, cvars, xvars>>

NextSession ==
    \/ \E path \in SessionPaths, connected \in BOOLEAN : SessionOpen(path, connected)
    \/ \E m \in FirstObjects, io \in BOOLEAN : SessionHandshake(m, io)
    \/ \E m \in CapabilitiesReplies, io \in BOOLEAN : SessionCapabilities(m, io)
    \/ \E m \in CommandReplies, io \in BOOLEAN : SessionCommand(m, io)

InitSessions == InitQmp /\ InitVms /\ units = {}

SpecSession == InitSessions /\ [][NextSession]_vars

(***************************************************************************)
(* Claims about the session's opening, checked under SpecSession           *)
(***************************************************************************)

\* C31: the commands of a session are qmp_capabilities and then the command,
\* written after an object has been read as the greeting; the command is
\* written only when the monitor has answered qmp_capabilities with a
\* return, and nothing is written after a step has failed.
C31_CapabilitiesBeforeCommands ==
    /\ IsPrefix(ses.sent, <<"qmp_capabilities", "command">>)
    /\ ses.sent # << >> => ses.pc \notin {"idle", "connected"}
    /\ Len(ses.sent) = 2 => IsReturn(ses.capsreply)
    /\ ses.failed_at = "connect" => ses.sent = << >>
    /\ ses.failed_at = "handshake" => ses.sent = << >>
    /\ ses.failed_at = "qmp_capabilities" => ses.sent = <<"qmp_capabilities">>

(***************************************************************************)
(* The reader at the end of the stream: the monitor closes the socket, or  *)
(* the connection breaks.  BufRead::read_line returns Ok(n) with the bytes *)
(* that are left, Ok(0) at the end of the stream, and Err for a failed     *)
(* read.  UnixSocket::read_input (src/qmp.rs) loops the same way on Ok(0). *)
(*   rd.eof      the monitor has closed the socket                         *)
(*   rd.reset    reads of the socket fail                                  *)
(*   rd.spun     a read_line of the current call has returned Ok(0)        *)
(***************************************************************************)
\* the monitor exits or closes the socket
WireClose ==
    /\ ~rd.eof /\ ~rd.reset
    /\ rd' = [rd EXCEPT !.eof = TRUE]
    /\ UNCHANGED <<answers, job, usys, vmo, lrun, tree, ncs, yvars>>
    /\ UNCHANGED <<qvars, svars, cvars>>

\* the connection breaks: read_line returns Err from now on
WireReset ==
    /\ ~rd.eof /\ ~rd.reset
    /\ rd' = [rd EXCEPT !.reset = TRUE]
    /\ UNCHANGED <<answers, job, usys, vmo, lrun, tree, ncs, yvars>>
    /\ UNCHANGED <<qvars, svars, cvars>>

\* one round of the loop with no line feed left before the end of the
\* stream: read_line is Ok with the bytes that are left, the test of the
\* sentinel follows, and the loop goes on
ReadLineAtEof ==
    /\ rd.pc = "reading"
    /\ rd.eof
    /\ NextLF(rd.stream, rd.pos) = 0
    /\ LET buf == rd.buf \o SubSeq(rd.stream, rd.pos + 1, Len(rd.stream))
           kind == ObjectKind(buf)
           returns(ok, how) ==
               [rd EXCEPT !.pos = Len(rd.stream), !.buf = buf, !.pc = "returned",
                          !.ok = ok, !.how = how, !.text = buf]
       IN rd' = IF ~ends_with(buf, Sentinel)
                   THEN [rd EXCEPT !.pos = Len(rd.stream), !.buf = buf,
                                   !.spun = (rd.pos = Len(rd.stream))]
                ELSE IF kind = "reply" THEN returns(TRUE, "parsed")
                ELSE IF kind = "event"
                   THEN [rd EXCEPT !.pos = Len(rd.stream), !.buf = <<>>]
                ELSE IF kind = "empty" THEN returns(TRUE, "default")
                ELSE returns(FALSE, "error")
    /\ UNCHANGED <<answers, job, usys, vmo, lrun, tree, ncs, yvars>>
    /\ UNCHANGED <<qvars, svars, cvars>>

\* read_line returns Err: the loop ends, Err(anyhow!("Read past end of input"))
ReadLineErr ==
    /\ rd.pc = "reading"
    /\ rd.reset
    /\ NextLF(rd.stream, rd.pos) = 0
    /\ rd' = [rd EXCEPT !.pc = "returned", !.ok = FALSE, !.how = "past end",
                        !.text = rd.buf]
    /\ UNCHANGED <<answers, job, usys, vmo, lrun, tree, ncs, yvars>>
    /\ UNCHANGED <<qvars, svars, cvars>>

NextEof ==
    \/ \E piece \in WirePieces : WireWriteUpTo(piece, MaxEofLines)
    \/ WireClose
    \/ WireReset
    \/ ReadInput
    \/ ReadLine
    \/ ReadLineAtEof
    \/ ReadLineErr

InitEof == InitQmp /\ InitVms /\ units = {}

SpecEof == InitEof /\ [][NextEof]_vars

\* the thread that called read_input runs
SpecEofFair ==
    /\ SpecEof
    /\ WF_vars(ReadLine)
    /\ WF_vars(ReadLineAtEof)
    /\ WF_vars(ReadLineErr)

(***************************************************************************)
(* Claims about the end of the stream, checked under SpecEofFair           *)
(***************************************************************************)

\* C32: a read_input that is under way when the monitor has closed the
\* socket returns; when it has found no terminated object it returns the
\* error "Read past end of input"
C32_EndOfStreamEndsRead ==
    (rd.eof /\ rd.pc = "reading") ~>
        (rd.pc = "returned" /\ (rd.spun => rd.how = "past end"))

(***************************************************************************)
(* The arguments of the emulator (src/launcher/emulators/qemu/linux.rs).   *)
(* An argument is the sequence of the pieces its format! puts together; a  *)
(* number is the text of its decimal form.                                 *)
(*   av.calls    calls of args so far                                      *)
(*   av.n, headless, cdrom, extra_disk, conf   what the last call was      *)
(*               given: the number of disks of disk_list, the              *)
(*               RuntimeConfig and the configuration of the VM             *)
(*   av.ok, v    what it returned                                          *)
(***************************************************************************)
QEMU_IMG_DEFAULT_FORMAT == "qcow2"

\* the monitor socket of the VM
MonitorPath == "mon"

\* the i-th path of the sorted disk_list
DiskFile(i) == <<"qemu-", DigitChars[i + 1], ".qcow2">>

\* the configurations args is called with: the default, one without memory,
\* one with a mapped port
ArgsConfigs ==
    {DefaultConfiguration,
     [DefaultConfiguration EXCEPT !.machine.memory = 0],
     [DefaultConfiguration EXCEPT !.ports = map_port(EmptyPorts, 2222, 22)]}

\* Emulator::hostfwd_rules on the ports of the configuration (a HashMap: the
\* rules come in some order of the keys)
RECURSIVE hostfwd_rules(_)
hostfwd_rules(ports) ==
    IF DOMAIN ports = {} THEN << >>
    ELSE LET host == CHOOSE h \in DOMAIN ports : TRUE
             rest == [k \in DOMAIN ports \ {host} |-> ports[k]]
         IN <<",hostfwd=tcp:127.0.0.1:">> \o host \o <<"-:">>
            \o ToDecimal(ports[host]) \o hostfwd_rules(rest)

\* Emulator::display_rule
display_rule(v, hl) ==
    v \o << <<"-display">>, <<IF hl THEN "none" ELSE "gtk">> >>

\* Emulator::cdrom_rules with the vector: the drive of an override
cdrom_drive(v, disk, index) ==
    IF disk = None THEN [ok |-> TRUE, v |-> v]
    ELSE IF disk \in MediaOnDisk
       THEN [ok |-> TRUE,
             v |-> v \o << <<"-drive">>,
                          <<"file=", disk, ",media=cdrom,index=">> \o ToDecimal(index) >>]
    ELSE [ok |-> FALSE, v |-> v]

\* the drives of the disks: for (x, disk) in disk_list.iter().enumerate()
RECURSIVE DiskDrives(_, _)
DiskDrives(conf, n) ==
    IF n = 0 THEN << >>
    ELSE DiskDrives(conf, n - 1)
         \o << <<"-drive">>,
               <<"driver=", QEMU_IMG_DEFAULT_FORMAT, ",if=">> \o conf.machine.image_interface
               \o <<",file=">> \o DiskFile(n)
               \o <<",cache=writethrough,media=disk,index=">> \o ToDecimal(n - 1) >>

\* Emulator::args.  v.append(&mut disks) moves the elements and leaves disks
\* empty, so the disks.len() of the two calls of cdrom_rules is 0.
Emulator_args(conf, n, hl, cd, extra) ==
    IF ~valid(conf) THEN [ok |-> FALSE, v |-> << >>]
    ELSE LET disks == DiskDrives(conf, n)
             v == << <<"-nodefaults">>,
                     <<"-chardev">>,
                     <<"socket,server=on,wait=off,id=char0,path=", MonitorPath>>,
                     <<"-mon">>,
                     <<"chardev=char0,mode=control,pretty=on">>,
                     <<"-machine">>,
                     <<"accel=kvm">>,
                     <<"-vga">>,
                     conf.machine.vga,
                     <<"-m">>,
                     ToDecimal(conf.machine.memory) \o <<"M">>,
                     <<"-cpu">>,
                     conf.machine.cpu_type,
                     <<"-smp">>,
                     <<"cpus=">> \o ToDecimal(conf.machine.cpus)
                        \o <<",cores=">> \o ToDecimal(conf.machine.cpus)
                        \o <<",maxcpus=">> \o ToDecimal(conf.machine.cpus),
                     <<"-nic">>,
                     <<"user">> \o hostfwd_rules(conf.ports) >>
             appended == v \o disks
             emptied == << >>
             shown == display_rule(appended, hl)
             first == cdrom_drive(shown, cd, (Len(emptied) + 2) % 256)
             second == cdrom_drive(first.v, extra, (Len(emptied) + 3) % 256)
         IN IF ~first.ok THEN [ok |-> FALSE, v |-> << >>]
            ELSE IF ~second.ok THEN [ok |-> FALSE, v |-> << >>]
            ELSE [ok |-> TRUE, v |-> second.v]

\* a launch asks for the arguments of a VM with n disks
ArgsCall(conf, n, hl, cd, extra) ==
    /\ av.calls < MaxArgsCalls
    /\ LET r == Emulator_args(conf, n, hl, cd, extra)
       IN av' = [calls |-> av.calls + 1, n |-> n, headless |-> hl, cdrom |-> cd,
                 extra_disk |-> extra, conf |-> conf, ok |-> r.ok, v |-> r.v]
    /\ UNCHANGED <<ses, race>>
    /\ UNCHANGED <<qvars, svars, cvars, xvars>>

NextArgs ==
    \E conf \in ArgsConfigs, n \in 0..MaxDisks, hl \in BOOLEAN,
       cd \in Overrides, extra \in Overrides :
        ArgsCall(conf, n, hl, cd, extra)

InitArgs == InitQmp /\ InitVms /\ units = {}

SpecArgs == InitArgs /\ [][NextArgs]_vars

(***************************************************************************)
(* Claims about the arguments, checked under SpecArgs                      *)
(***************************************************************************)
\* the drive of the i-th disk as the design writes it
DesignDiskDrive(conf, i) ==
    <<"driver=", "qcow2", ",if=">> \o conf.machine.image_interface
    \o <<",file=">> \o DiskFile(i)
    \o <<",cache=none,media=disk,index=">> \o ToDecimal(i - 1) \o <<",snapshot=on">>

\* the arguments of the design up to the display
DesignArgs(conf, n, hl) ==
    << <<"-nodefaults">>,
       <<"-chardev">>,
       <<"socket,server=on,wait=off,id=char0,path=", MonitorPath>>,
       <<"-snapshot">>,
       <<"-mon">>,
       <<"chardev=char0,mode=control,pretty=on">>,
       <<"-machine">>,
       <<"accel=kvm">>,
       <<"-vga">>,
       conf.machine.vga,
       <<"-m">>,
       ToDecimal(conf.machine.memory) \o <<"M">>,
       <<"-cpu">>,
       conf.machine.cpu_type,
       <<"-smp">>,
       <<"cpus=">> \o ToDecimal(conf.machine.cpus)
          \o <<",cores=">> \o ToDecimal(conf.machine.cpus)
          \o <<",maxcpus=">> \o ToDecimal(conf.machine.cpus),
       <<"-nic">>,
       <<"user">> \o hostfwd_rules(conf.ports) >>
    \o [k \in 1..(2 * n) |-> IF k % 2 = 1 THEN <<"-drive">>
                             ELSE DesignDiskDrive(conf, k \div 2)]
    \o << <<"-display">>, <<IF hl THEN "none" ELSE "gtk">> >>

\* the text after index= of a drive
IndexText(arg) ==
    LET marks == {k \in 1..Len(arg) :
                    arg[k] \in {",cache=writethrough,media=disk,index=",
                                ",media=cdrom,index="}}
        k == CHOOSE k \in marks : TRUE
    IN SubSeq(arg, k + 1, Len(arg))

\* the positions in v of the arguments that follow a -drive
DrivesOf(v) == {k \in 2..Len(v) : v[k - 1] = <<"-drive">>}

\* the positions in v of the drives of the file
DrivesOfFile(v, file) ==
    {k \in DrivesOf(v) : Len(v[k]) >= 2 /\ v[k][1] = "file=" /\ v[k][2] = file}

\* C33: for a valid configuration the arguments are, in this order, those of
\* the design up to the display (with -snapshot after the chardev, and every
\* disk with cache=none and snapshot=on), followed by nothing but the drives
\* of the overrides
C33_ArgsInDesignOrder ==
    (av.calls > 0 /\ av.ok) =>
        LET design == DesignArgs(av.conf, av.n, av.headless)
        IN /\ Len(av.v) >= Len(design)
           /\ SubSeq(av.v, 1, Len(design)) = design
           /\ \A k \in (Len(design) + 1)..Len(av.v) :
                 k \in DrivesOf(av.v) \/ av.v[k] = <<"-drive">>

\* C34: the drive of the cdrom has the index n + 2 and the drive of the extra
\* image the index n + 3, n the number of disks
C34_OverrideIndexesFollowDisks ==
    (av.calls > 0 /\ av.ok) =>
        /\ av.cdrom # None =>
              \E k \in DrivesOfFile(av.v, av.cdrom) :
                  IndexText(av.v[k]) = ToDecimal(av.n + 2)
        /\ av.extra_disk # None =>
              \E k \in DrivesOfFile(av.v, av.extra_disk) :
                  IndexText(av.v[k]) = ToDecimal(av.n + 3)

\* C36: no two drives of one invocation have the same index
C36_DriveIndexesDistinct ==
    (av.calls > 0 /\ av.ok) =>
        \A j \in DrivesOf(av.v), k \in DrivesOf(av.v) :
            j # k => IndexText(av.v[j]) # IndexText(av.v[k])

(***************************************************************************)
(* Claims about a run that meets a running emulator.                       *)
(***************************************************************************)
\* the unit file of a VM is taken out of the user's systemd directory; from
\* then on VM::new finds no unit file and hands out the PID supervisor
UnitFileRemoved(name) ==
    /\ name \in units
    /\ units' = units \ {name}
    /\ cmd' = NoCmd
    /\ UNCHANGED <<fs, services, alive, nextpid, daemon, sd>>
    /\ UNCHANGED <<qvars, cvars, xvars, yvars>>

NextRerun ==
    \/ Next
    \/ \E name \in VmNames : UnitFileRemoved(name)

SpecRerun == Init /\ [][NextRerun]_vars

\* the PID supervisor reports the VM active: its pidfile names a live process
RunningUnderPid(f, u, live, name) ==
    /\ path_exists(f, vm_root(name))
    /\ ~Supervised(u, name)
    /\ PidIsActive(f, live, name) = ActiveOk(TRUE)

\* C37: a run of a VM whose emulator is already running under the PID
\* supervisor, and whose launch fails, leaves the pidfile as it was: the
\* pidfile still holds the PID of the running emulator and is_active still
\* returns true.
C37_SecondRunKeepsPidfile ==
    [][(/\ cmd'.op = "run" /\ ~cmd'.opok
        /\ RunningUnderPid(fs, units, alive, cmd'.name)) =>
          /\ read_pidfile(fs', cmd'.name) = read_pidfile(fs, cmd'.name)
          /\ PidIsActive(fs', alive', cmd'.name) = ActiveOk(TRUE)]_vars

(***************************************************************************)
(* Claims about a create that fails half way.                              *)
(***************************************************************************)
\* C40: create without --append of a VM that does not exist is all or
\* nothing: when it fails the VM does not exist afterwards, and when it
\* succeeds the VM root holds exactly one disk image.
C40_CreateIsAllOrNothing ==
    [][(/\ cmd'.op = "create" /\ ~cmd'.flag
        /\ ~path_exists(fs, vm_root(cmd'.name))) =>
          IF cmd'.opok
             THEN /\ path_exists(fs', vm_root(cmd'.name))
                  /\ Cardinality(fs'[Target(vm_root(cmd'.name))].disks) = 1
             ELSE ~path_exists(fs', vm_root(cmd'.name))]_vars

(***************************************************************************)
(* Two run commands at the same time (CommandHandler::run over             *)
(* Launcher::launch).  Each command is a process of its own; its steps are *)
(* the system calls of the process that runs Launcher::launch, which is    *)
(* the command itself or, with --detach, its daemonized child.             *)
(***************************************************************************)
RunReturns(p, name, kind) ==
    race' = [race EXCEPT ![p] = [pc |-> "returned", name |-> name, pid |-> 0, err |-> kind]]

\* CommandHandler::run up to the launch: running_vms() and the comparison of
\* the port maps, then Emulator::args
RunCheck(p, name) ==
    /\ race[p].pc = "idle"
    /\ LET f == EnsureBase(fs)
           rv == running_vms(f, units, services, alive)
           conflicts == {r \in rv.vms : is_port_conflict(config(f, r), config(f, name))}
       IN /\ fs' = f
          /\ IF ~rv.ok THEN RunReturns(p, name, "io")
             ELSE IF conflicts # {} THEN RunReturns(p, name, "port conflict")
             ELSE IF ~args_ok(f, name) THEN RunReturns(p, name, "args")
             ELSE race' = [race EXCEPT ![p] = [pc |-> "launch", name |-> name,
                                               pid |-> 0, err |-> ""]]
    /\ UNCHANGED <<units, services, alive, nextpid, daemon, sd, cmd>>
    /\ UNCHANGED <<qvars, cvars, xvars, ses, av>>

\* Launcher::launch: cmd.args(args).spawn()
RunSpawn(p, spawned) ==
    /\ race[p].pc = "launch"
    /\ nextpid <= MaxPid
    /\ IF spawned
          THEN /\ alive' = alive \cup {nextpid}
               /\ nextpid' = nextpid + 1
               /\ race' = [race EXCEPT ![p].pc = "write", ![p].pid = nextpid]
          ELSE /\ RunReturns(p, race[p].name, "spawn")
               /\ UNCHANGED <<alive, nextpid>>
    /\ UNCHANGED <<fs, units, services, daemon, sd, cmd>>
    /\ UNCHANGED <<qvars, cvars, xvars, ses, av>>

\* Launcher::launch: std::fs::write(pidfile, child.id())
RunWritePid(p) ==
    /\ race[p].pc = "write"
    /\ LET rp == vm_root(race[p].name)
       IN IF path_exists(fs, rp)
             THEN /\ fs' = [fs EXCEPT ![Target(rp)].pid = Pidfile(ToDecimal(race[p].pid))]
                  /\ race' = [race EXCEPT ![p].pc = "wait"]
             ELSE /\ fs' = fs
                  /\ race' = [race EXCEPT ![p].pc = "returned", ![p].err = "io"]
    /\ UNCHANGED <<units, services, alive, nextpid, daemon, sd, cmd>>
    /\ UNCHANGED <<qvars, cvars, xvars, ses, av>>

\* Launcher::launch: child.wait() returns when the emulator has exited
RunWait(p, status) ==
    /\ race[p].pc = "wait"
    /\ alive' = alive \ {race[p].pid}
    /\ race' = [race EXCEPT ![p].pc = "returned",
                            ![p].err = IF status = 0 THEN "" ELSE "qemu exited uncleanly"]
    /\ UNCHANGED <<fs, units, services, nextpid, daemon, sd, cmd>>
    /\ UNCHANGED <<qvars, cvars, xvars, ses, av>>

\* the terminal is free for the next command
RunOver(p) ==
    /\ race[p].pc = "returned"
    /\ race' = [race EXCEPT ![p] = NoRun]
    /\ UNCHANGED <<svars, qvars, cvars, xvars, ses, av>>

NextRace ==
    \/ \E p \in RunProcs, name \in VmNames : RunCheck(p, name)
    \/ \E p \in RunProcs, spawned \in BOOLEAN : RunSpawn(p, spawned)
    \/ \E p \in RunProcs : RunWritePid(p)
    \/ \E p \in RunProcs, status \in {0, 1} : RunWait(p, status)
    \/ \E p \in RunProcs : RunOver(p)

\* the port maps of the VMs a and b at the start: none, or the ssh port
RaceConfigs == {NoConfig, ConfigFile(map_port(EmptyPorts, 2222, 22))}

\* the VMs a and b have been run before and their emulators have exited:
\* each pidfile names a process that is gone
InitRace ==
    /\ InitQmp
    /\ \E ca \in RaceConfigs, cb \in RaceConfigs :
         fs = (Root :> EmptyDir) @@ (DataDir :> EmptyDir) @@ (BasePath :> EmptyDir)
              @@ (Append(BasePath, <<"a">>) :>
                     [EmptyDir EXCEPT !.disks = {1}, !.config = ca,
                                      !.pid = Pidfile(ToDecimal(FirstPid - 1))])
              @@ (Append(BasePath, <<"b">>) :>
                     [EmptyDir EXCEPT !.disks = {1}, !.config = cb,
                                      !.pid = Pidfile(ToDecimal(FirstPid - 1))])
    /\ units = {}
    /\ Quiet

SpecRace == InitRace /\ [][NextRace]_vars

\* the emulator that command p has spawned is running
EmulatorOf(p) == race[p].pc \in {"write", "wait"} /\ race[p].pid \in alive

\* C38: under every interleaving of two run commands, two VMs whose port
\* maps share a host port never both have a running emulator.
C38_ConflictingVmsNeverBothRun ==
    \A p \in RunProcs, q \in RunProcs :
        (/\ p # q
         /\ race[p].name # race[q].name
         /\ EmulatorOf(p) /\ EmulatorOf(q))
        => ~is_port_conflict(config(fs, race[p].name), config(fs, race[q].name))

====
